---- MODULE Spec2Model ----
(***************************************************************************)
(* State-machine model of the PayzCore Shopify app: the webhook route      *)
(* (routes/auth.ts: createWebhookRouter and its handlers), the status poll *)
(* route (routes/payment.ts), the Redis-backed store (store.ts), the       *)
(* Shopify Admin client and the webhook signature middleware               *)
(* (middleware/verify-payzcore.ts).                                        *)
(*                                                                         *)
(* Every `await` of a handler is one step of the request that runs it, so  *)
(* that requests interleave exactly where Node's event loop lets them.     *)
(* Calls to Redis, Shopify and PayzCore take effect atomically at the step *)
(* that awaits them; a Shopify or PayzCore call may fail (throw) instead.  *)
(***************************************************************************)
EXTENDS Integers, Sequences, FiniteSets, TLC

\* ------------------------------------------------------------------ bounds

\* Requests (pushes and polls) admitted in one behaviour.
MaxRequests == 2
\* Requests being handled at the same time (the request slots).
MaxInFlight == 2
\* Clock ticks in one behaviour; each tick advances the clock by TickSeconds.
MaxTicks == 2

\* ------------------------------------------------------- program constants

\* store.ts: const PAYMENT_TTL = 86400 * 7
PAYMENT_TTL == 604800
\* routes/payment.ts: expires_in: 3600
EXPIRES_IN == 3600
\* verify-payzcore.ts: 5 * 60 * 1000 (milliseconds)
REPLAY_WINDOW_MS == 300000
\* verify-payzcore.ts: /^[a-f0-9]{64}$/i
SIG_HEX_LEN == 64
\* The clock of the model advances in steps of half the retention window.
TickSeconds == PAYMENT_TTL \div 2

\* A header or a body that was not sent.
Absent == << "<absent>" >>

\* /^[a-fA-F0-9]{10,128}$/: the lengths of a transaction hash.
TX_HASH_MIN == 10
TX_HASH_MAX == 128

\* payment.js: var MAX_POLL_FAILURES = 3
MAX_POLL_FAILURES == 3

\* ------------------------------------------------------------------ statuses

\* services/payzcore.ts: type PaymentStatus
PaymentStatus ==
  {"pending", "confirming", "partial", "paid", "overpaid", "expired", "cancelled"}

\* The list of terminal statuses without its last entry.
IsTerminalWithoutCancelled(s) == s \in {"paid", "overpaid", "expired"}

\* routes/payment.ts: ['paid','overpaid','expired','cancelled'].includes(status)
IsTerminal(s) == s \in {"paid", "overpaid", "expired", "cancelled"}

\* routes/payment.ts: status === 'paid' || status === 'overpaid'
IsPaid(s) == s = "paid" \/ s = "overpaid"

\* The finality order of the design: {pending, confirming} < partial < terminal.
Finality(s) ==
  IF s \in {"pending", "confirming"} THEN 0
  ELSE IF s = "partial" THEN 1
  ELSE 2

\* ------------------------------------------------------------------ strings

\* A string is a sequence of characters.  The characters of the model: the
\* decimal digits, the hex letters in both cases, and the tokens a webhook
\* body is made of (one token per JSON field value).
Alphabet ==
  << "0", "1", "2", "3", "4", "5", "6", "7", "8", "9",
     "a", "b", "c", "d", "e", "f", "A", "B", "C", "D", "E", "F",
     ".", "x", "g",
     "payment.completed", "payment.overpaid", "payment.expired",
     "payment.cancelled", "payment.partial", "payment.unknown",
     "pending", "confirming", "partial", "paid", "overpaid", "expired",
     "cancelled", "pay_1", "pay_2", "30", "45", "100" >>

Chars == {Alphabet[i] : i \in DOMAIN Alphabet}

\* The character code of c (its byte value in the message that is signed).
CharCodes == [c \in Chars |-> CHOOSE i \in DOMAIN Alphabet : Alphabet[i] = c]
CharCode(c) == CharCodes[c]

HexLower ==
  << "0", "1", "2", "3", "4", "5", "6", "7", "8", "9",
     "a", "b", "c", "d", "e", "f" >>
HexUpper ==
  << "0", "1", "2", "3", "4", "5", "6", "7", "8", "9",
     "A", "B", "C", "D", "E", "F" >>
DecDigits == << "0", "1", "2", "3", "4", "5", "6", "7", "8", "9" >>

HexChars == {HexLower[i] : i \in 1..16} \cup {HexUpper[i] : i \in 1..16}
HexVals ==
  [c \in HexChars |-> (CHOOSE i \in 1..16 : HexLower[i] = c \/ HexUpper[i] = c) - 1]
IsHexChar(c) == c \in HexChars
HexVal(c) == HexVals[c]
DecChars == {DecDigits[i] : i \in 1..10}
IsDecDigit(c) == c \in DecChars
DecVal(c) == HexVals[c]

\* JavaScript's `!x` for a header: true when it was not sent and when it is the
\* empty string.
Falsy(x) == x = Absent \/ x = << >>

\* ------------------------------------------------- verify-payzcore.ts

\* new Date(timestamp).getTime(): the instant a timestamp string denotes, in
\* milliseconds; isNaN of it when the string is no date.  Timestamp strings
\* are decimal renderings of the instant; several strings denote one instant
\* (leading zeros), as several ISO spellings do.
RECURSIVE DecimalValue(_, _)
DecimalValue(s, acc) ==
  IF s = << >> THEN acc
  ELSE DecimalValue(Tail(s), 10 * acc + DecVal(Head(s)))

DateIsNaN(timestamp) ==
  timestamp = << >> \/ \E i \in DOMAIN timestamp : ~IsDecDigit(timestamp[i])

DateGetTime(timestamp) == DecimalValue(timestamp, 0)

\* The sender's rendering of an instant (no leading zeros).
RECURSIVE ToDecimal(_)
ToDecimal(n) ==
  IF n < 10 THEN << DecDigits[n + 1] >>
  ELSE Append(ToDecimal(n \div 10), DecDigits[(n % 10) + 1])

Abs(n) == IF n < 0 THEN -n ELSE n

\* Math.abs(Date.now() - ts) > 5 * 60 * 1000
OutsideWindowInclusive(nowMs, ts) == Abs(nowMs - ts) >= REPLAY_WINDOW_MS
OutsideWindow(nowMs, ts) == Abs(nowMs - ts) > REPLAY_WINDOW_MS

\* `${timestamp}.${rawBody.toString('utf8')}`
SignedMessageBodyOnly(timestamp, rawBody) == rawBody
SignedMessage(timestamp, rawBody) == timestamp \o << "." >> \o rawBody

\* config.payzcore.webhookSecret, as key bytes.
WebhookSecret == << 7, 200, 31 >>

\* createHmac('sha256', secret).update(message).digest(): 32 bytes.  SHA-256
\* is idealised as a keyed function without collisions on the messages of the
\* model (at most 32 characters): byte i is the code of character i, or 0
\* past the end, shifted by the key.
HmacSha256(secret, message) ==
  [i \in 1..(SIG_HEX_LEN \div 2) |->
     ((IF i <= Len(message) THEN CharCode(message[i]) ELSE 0)
        + secret[((i - 1) % Len(secret)) + 1]) % 256]

\* .digest('hex'): two lower-case hex digits per byte.
HexEncode(bytes) ==
  [i \in 1..(2 * Len(bytes)) |->
     IF i % 2 = 1 THEN HexLower[(bytes[(i + 1) \div 2] \div 16) + 1]
     ELSE HexLower[(bytes[i \div 2] % 16) + 1]]

\* /^[a-f0-9]{64}$/i.test(signature)
SignatureFormatOk(signature) ==
  /\ Len(signature) = SIG_HEX_LEN
  /\ \A i \in DOMAIN signature : IsHexChar(signature[i])

\* Buffer.from(s, 'hex'): one byte per pair of hex digits, either case.
BufferFromHex(s) ==
  [i \in 1..(Len(s) \div 2) |-> 16 * HexVal(s[2 * i - 1]) + HexVal(s[2 * i])]

\* timingSafeEqual(a, b): throws on buffers of different length (the catch
\* answers 401 as a mismatch does), else compares the bytes.
TimingSafeEqual(a, b) == Len(a) = Len(b) /\ a = b

Rejected(code, error) == [next |-> FALSE, status |-> code, error |-> error]
Accepted == [next |-> TRUE, status |-> 0, error |-> ""]

\* The middleware returned by verifyPayzCoreWebhook(config), applied to the
\* two headers and the raw body at the instant nowMs.
VerifyPayzCoreWebhook(signature, timestamp, rawBody, nowMs) ==
  IF Falsy(signature) THEN Rejected(401, "Missing signature header")
  ELSE IF Falsy(timestamp) THEN Rejected(401, "Missing timestamp header")
  ELSE
    IF DateIsNaN(timestamp) \/ OutsideWindow(nowMs, DateGetTime(timestamp))
    THEN Rejected(401, "Timestamp validation failed")
    ELSE IF rawBody = Absent THEN Rejected(400, "Missing request body")
    ELSE LET expected ==
               HexEncode(HmacSha256(WebhookSecret,
                                    SignedMessage(timestamp, rawBody)))
         IN IF ~SignatureFormatOk(signature)
            THEN Rejected(401, "Invalid signature")
            ELSE IF ~TimingSafeEqual(BufferFromHex(signature),
                                     BufferFromHex(expected))
            THEN Rejected(401, "Invalid signature")
            ELSE Accepted

\* ------------------------------------------------------------------ data

PaymentIds == {"pay_1", "pay_2"}
ShopDomain == "shop1.myshopify.com"

\* A key that Redis does not hold (GET answers nil).
NoMapping == [absent |-> TRUE]

\* store.ts: interface PaymentMapping, with the values GET /payment/create
\* writes for pay_1 at time 0 (routes/payment.ts, savePaymentMapping).
CreatedMapping ==
  [ shopDomain |-> ShopDomain,
    shopifyOrderId |-> 1001,
    shopifyOrderName |-> "#1001",
    amount |-> "100",
    network |-> "TRC20",
    token |-> "USDT",
    payzCorePaymentId |-> "pay_1",
    address |-> "T-addr-1",
    expectedAmount |-> "100",
    expiresAt |-> EXPIRES_IN,
    status |-> "pending",
    createdAt |-> 0,
    requiresTxid |-> TRUE,
    confirmEndpoint |-> "/v1/payments/pay_1/confirm" ]

\* updatePaymentMappingStatus: mapping.status = status, on the parsed copy.
WithStatus(mapping, status) == [mapping EXCEPT !.status = status]

\* The Shopify order the record refers to, as GET /orders/{id}.json shows it,
\* plus the number of capture transactions and cancellations recorded on it.
CreatedOrder ==
  [ financial_status |-> "pending",
    cancelled_at |-> FALSE,
    note |-> << >>,
    tags |-> << >>,
    captures |-> 0,
    cancels |-> 0,
    notes |-> 0 ]

\* routes/auth.ts: interface WebhookPayload.  A raw body is the sequence of
\* its field values; JSON.parse reads the fields back.
JsonParse(rawBody) ==
  [ event |-> rawBody[1],
    payment_id |-> rawBody[2],
    status |-> rawBody[3],
    paid_amount |-> rawBody[4] ]

NoPayload == [event |-> "", payment_id |-> "", status |-> "", paid_amount |-> ""]

\* The webhook bodies PayzCore sends in the model.
PushBodies ==
  { << "payment.completed", "pay_1", "paid", "100" >>,
    << "payment.overpaid", "pay_1", "overpaid", "100" >>,
    << "payment.expired", "pay_1", "expired", "0" >>,
    << "payment.cancelled", "pay_1", "cancelled", "0" >>,
    << "payment.partial", "pay_1", "partial", "30" >>,
    << "payment.partial", "pay_1", "partial", "45" >>,
    << "payment.unknown", "pay_1", "confirming", "0" >>,
    << "payment.completed", "pay_1", "expired", "100" >>,
    << "payment.completed", "pay_2", "paid", "100" >> }

\* The events of the switch; SuccessEventsWithPartial is the first case with
\* payment.partial fallen into it.
SuccessEventsWithPartial == {"payment.completed", "payment.overpaid", "payment.partial"}
SuccessEvents == {"payment.completed", "payment.overpaid"}
CancelEvents == {"payment.expired", "payment.cancelled"}

\* --------------------------------------------------------------- config.ts

VALID_NETWORKS == {"TRC20", "BEP20", "ERC20", "POLYGON", "ARBITRUM"}
VALID_TOKENS == {"USDT", "USDC"}

\* VALID_NETWORK_TOKEN[network]: TRC20 supports USDT only.
VALID_NETWORK_TOKEN(network) ==
  IF network = "TRC20" THEN {"USDT"} ELSE {"USDT", "USDC"}

\* isValidNetworkToken(network, token)
isValidNetworkToken(network, token) == token \in VALID_NETWORK_TOKEN(network)

\* The value of an environment variable is a sequence of tokens (the names
\* of networks and tokens, "," and " "), or Absent when it is not set.
\* a ?? b
Nullish(a, b) == IF a = Absent THEN b ELSE a

\* names.includes(value): the value is exactly one of the names.
Includes(names, value) == Len(value) = 1 /\ value[1] \in names

\* str.split(',')
RECURSIVE SplitComma(_, _)
SplitComma(s, piece) ==
  IF s = << >> THEN << piece >>
  ELSE IF Head(s) = "," THEN << piece >> \o SplitComma(Tail(s), << >>)
  ELSE SplitComma(Tail(s), Append(piece, Head(s)))

\* c => c.trim(), for a piece of the list: blanks are dropped at both ends.
RECURSIVE TrimPiece(_)
TrimPiece(s) ==
  IF s # << >> /\ Head(s) = " " THEN TrimPiece(Tail(s))
  ELSE IF s # << >> /\ s[Len(s)] = " " THEN TrimPiece(SubSeq(s, 1, Len(s) - 1))
  ELSE s

\* .map(c => c.trim()).filter(c => VALID_NETWORKS.includes(c)): the names of
\* the valid networks among the pieces, in their order.
RECURSIVE ValidNames(_)
ValidNames(pieces) ==
  IF pieces = << >> THEN << >>
  ELSE IF Includes(VALID_NETWORKS, TrimPiece(Head(pieces)))
       THEN << TrimPiece(Head(pieces))[1] >> \o ValidNames(Tail(pieces))
  ELSE ValidNames(Tail(pieces))

NoEnv ==
  [ DEFAULT_NETWORK |-> Absent, DEFAULT_CHAIN |-> Absent, DEFAULT_TOKEN |-> Absent,
    ENABLED_NETWORKS |-> Absent, ENABLED_CHAINS |-> Absent, required |-> TRUE ]

NoAppConfig == [enabledNetworks |-> << >>, defaultNetwork |-> "", defaultToken |-> ""]
ConfigThrows == [ok |-> FALSE, app |-> NoAppConfig]

\* loadConfig(): the app part of the AppConfig, or the throw.  env.required
\* tells whether the required variables are set (SESSION_SECRET with 32
\* characters or more).
loadConfig(env) ==
  LET network == Nullish(env.DEFAULT_NETWORK, Nullish(env.DEFAULT_CHAIN, << "TRC20" >>))
      token == Nullish(env.DEFAULT_TOKEN, << "USDT" >>)
      enabledNetworksStr == Nullish(env.ENABLED_NETWORKS, env.ENABLED_CHAINS)
      listed == ValidNames(SplitComma(enabledNetworksStr, << >>))
      enabledNetworks ==
        IF ~Falsy(enabledNetworksStr) THEN listed ELSE << network[1] >>
  IN IF ~Includes(VALID_NETWORKS, network) THEN ConfigThrows
     ELSE IF ~Includes(VALID_TOKENS, token) THEN ConfigThrows
     ELSE IF ~isValidNetworkToken(network[1], token[1]) THEN ConfigThrows
     ELSE IF enabledNetworks = << >> THEN ConfigThrows
     ELSE IF ~env.required THEN ConfigThrows
     ELSE [ ok |-> TRUE,
            app |-> [ enabledNetworks |-> enabledNetworks,
                      defaultNetwork |-> enabledNetworks[1],
                      defaultToken |-> token[1] ] ]

\* .filter(c => VALID_NETWORKS.includes(c)) on the names the API lists.
RECURSIVE ValidNetworksOf(_)
ValidNetworksOf(names) ==
  IF names = << >> THEN << >>
  ELSE IF Head(names) \in VALID_NETWORKS
       THEN << Head(names) >> \o ValidNetworksOf(Tail(names))
  ELSE ValidNetworksOf(Tail(names))

\* fetchConfigFromApi(config) once /v1/config has answered with `data`:
\* networks is Absent or the list of names, default_token is "" when missing.
ApplyApiConfig(app, data) ==
  LET networks == IF data.networks = Absent THEN << >>
                  ELSE ValidNetworksOf(data.networks)
      a == IF networks # << >>
           THEN [app EXCEPT !.enabledNetworks = networks, !.defaultNetwork = networks[1]]
           ELSE app
  IN IF data.default_token \in VALID_TOKENS
     THEN [a EXCEPT !.defaultToken = data.default_token]
     ELSE a

\* The process with nothing but the required variables in its environment,
\* once index.ts has started to listen.
DefaultConfig == [pc |-> "serving", env |-> NoEnv, app |-> loadConfig(NoEnv).app]

\* ------------------------------------------------------------------ state

VARIABLES
  now,        \* wall clock, in seconds
  store,      \* Redis: payment id -> PaymentMapping or NoMapping
  storeExp,   \* Redis: payment id -> the second at which the key expires
  shops,      \* Redis: the shop domains that hold an access token
  order,      \* the Shopify order of pay_1
  req,        \* the requests: slot -> the handler's position and locals
  started,    \* requests admitted so far
  overlap,    \* history: some request was admitted while another was in flight
  scen,       \* history: what the scenario at hand has admitted so far
  vreq,       \* signature check on its own: the inputs
  vres,       \* signature check on its own: the middleware's answer
  session,    \* the browser's cookie session: what req.session holds
  page,       \* the payment page of pay_1 in the payer's browser (payment.js)
  config      \* the process's environment and the AppConfig made from it

vars ==
  << now, store, storeExp, shops, order, req, started, overlap, scen, vreq, vres, session, page, config >>

Slots == 1..MaxInFlight

NoResp == [code |-> 0]

IdleRequest ==
  [ kind |-> "none", pc |-> "idle", payload |-> NoPayload,
    mapping |-> NoMapping, upd |-> NoMapping, ttl |-> 0,
    currentTags |-> << >>, failed |-> FALSE, resp |-> NoResp ]

NoVerifyRequest ==
  [nowMs |-> 0, signature |-> Absent, timestamp |-> Absent, rawBody |-> Absent]
NoVerifyResult == [next |-> FALSE, status |-> 0, error |-> "pending"]

InFlight == {r \in Slots : req[r].pc \notin {"idle", "done"}}

NoScenario == [status |-> "", pushes |-> 0, polls |-> 0]

\* JavaScript's null, which is not undefined (Absent).
JsNull == << "<null>" >>

\* A session no handler has written to: its properties are undefined.
FreshSession == [shopifyNonce |-> Absent, shopDomain |-> Absent, returnUrl |-> Absent]

\* payment.js once the page of pay_1 has loaded: startCountdown has shown the
\* time left and started its interval, startPolling has started the other.
LoadedPage ==
  [ pollTimer |-> TRUE, countdownTimer |-> TRUE,
    isTerminal |-> FALSE, timerExpired |-> FALSE,
    consecutivePollFailures |-> 0, pollWarning |-> FALSE,
    countdown |-> EXPIRES_IN, banner |-> "pending",
    paymentCard |-> TRUE, successOverlay |-> FALSE, expiredOverlay |-> FALSE,
    showSuccessCalls |-> 0, redirects |-> 0,
    txidInput |-> << >>, txidStatus |-> "", txidInputDisabled |-> FALSE,
    txidBtnDisabled |-> FALSE, txidBtnHidden |-> FALSE,
    unloaded |-> FALSE ]

\* The state of a process whose configuration is `cfg`, with `mapping` as the
\* record of pay_1 in Redis (NoMapping: no record).
InitProcess(mapping, cfg) ==
  /\ now = 0
  /\ store = [p \in PaymentIds |-> IF p = "pay_1" THEN mapping ELSE NoMapping]
  /\ storeExp = [p \in PaymentIds |->
                   IF p = "pay_1" /\ mapping # NoMapping THEN PAYMENT_TTL ELSE 0]
  /\ shops = {ShopDomain}
  /\ order = CreatedOrder
  /\ req = [r \in Slots |-> IdleRequest]
  /\ started = 0
  /\ overlap = FALSE
  /\ vres = NoVerifyResult
  /\ session = FreshSession
  /\ page = LoadedPage
  /\ config = cfg

\* The state once /payment/create has stored `mapping` as the record of pay_1.
InitStore(mapping) == InitProcess(mapping, DefaultConfig)

\* The state once /payment/create has stored the record of pay_1; `status` is
\* the status PayzCore returned for the payment.
InitApp(status) == InitStore(WithStatus(CreatedMapping, status))

Init == InitApp("pending") /\ scen = NoScenario /\ vreq = NoVerifyRequest

\* ------------------------------------------------------------------ Redis

\* redis.get(key)
RedisGet(p) == store[p]

\* redis.ttl(key): the seconds the key has left, -2 when there is no key.
RedisTtl(p) == IF store[p] = NoMapping THEN -2 ELSE storeExp[p] - now

\* Time passes; Redis drops the keys whose time-to-live has run out.
Tick ==
  /\ now + TickSeconds <= MaxTicks * TickSeconds
  /\ now' = now + TickSeconds
  /\ store' = [p \in PaymentIds |->
                 IF store[p] # NoMapping /\ now' >= storeExp[p]
                 THEN NoMapping ELSE store[p]]
  /\ UNCHANGED << storeExp, shops, order, req, started, overlap, scen, vreq, vres, session, page, config >>

\* ------------------------------------------------------------------ requests

\* What PayzCore puts in the two headers of a push it sends at `nowMs`.
SenderSignature(timestamp, rawBody) ==
  HexEncode(HmacSha256(WebhookSecret, timestamp \o << "." >> \o rawBody))

\* A signature with its first hex digit replaced by another one.
Tampered(signature) ==
  [signature EXCEPT ![1] = IF signature[1] = "0" THEN "1" ELSE "0"]

PushHeaders(rawBody, nowMs) ==
  LET ts == ToDecimal(nowMs) IN
  { [signature |-> SenderSignature(ts, rawBody), timestamp |-> ts],
    [signature |-> Tampered(SenderSignature(ts, rawBody)), timestamp |-> ts] }

\* A request enters the lowest free slot.
Admit(r) ==
  /\ started < MaxRequests
  /\ req[r].pc = "idle"
  /\ \A r2 \in Slots : r2 < r => req[r2].pc # "idle"
  /\ started' = started + 1
  /\ overlap' = (overlap \/ InFlight # {})

\* The handler has answered: its locals are gone, the response is on the wire.
Finish(q, response) ==
  [q EXCEPT !.pc = "done", !.resp = response, !.upd = NoMapping, !.ttl = 0,
            !.currentTags = << >>]

\* The response has been delivered; the slot is free again.
Release(r) ==
  /\ req[r].pc = "done"
  /\ req' = [req EXCEPT ![r] = IdleRequest]
  /\ UNCHANGED << now, store, storeExp, shops, order, started, overlap, scen, vreq, vres, session, page, config >>

PushReply(processed, reason) ==
  [code |-> 200, received |-> TRUE, processed |-> processed, reason |-> reason]
PushError ==
  [code |-> 500, received |-> TRUE, processed |-> FALSE, reason |-> "processing_error"]

\* The route without its signature middleware: every push reaches the handler.
DeliverUnverified(r, rawBody, h) ==
  req' = [req EXCEPT ![r] =
            [IdleRequest EXCEPT !.kind = "push", !.pc = "get_mapping",
                                !.payload = JsonParse(rawBody)]]

\* POST /webhooks/payzcore up to the handler's first await: express.raw, the
\* JSON parse, the signature middleware, and the call of getPaymentMapping.
Deliver(r, rawBody, h) ==
  LET v == VerifyPayzCoreWebhook(h.signature, h.timestamp, rawBody, now * 1000)
  IN req' = [req EXCEPT ![r] =
       IF v.next
       THEN [IdleRequest EXCEPT !.kind = "push", !.pc = "get_mapping",
                                !.payload = JsonParse(rawBody)]
       ELSE Finish([IdleRequest EXCEPT !.kind = "push"],
                   [code |-> v.status, error |-> v.error])]

PushArrive(r) ==
  /\ Admit(r)
  /\ \E rawBody \in PushBodies :
       \E h \in PushHeaders(rawBody, now * 1000) : Deliver(r, rawBody, h)
  /\ UNCHANGED << now, store, storeExp, shops, order, scen, vreq, vres, session, page, config >>

\* GET /payment/:paymentId/status up to its first await.
Poll(r, p) ==
  req' = [req EXCEPT ![r] =
            [IdleRequest EXCEPT !.kind = "poll", !.pc = "get_mapping",
                                !.payload = [NoPayload EXCEPT !.payment_id = p]]]

PollArrive(r) ==
  /\ Admit(r)
  /\ \E p \in PaymentIds : Poll(r, p)
  /\ UNCHANGED << now, store, storeExp, shops, order, scen, vreq, vres, session, page, config >>

\* The lookup with a missing record of a push treated as a processing error.
GetMappingThrows(r) ==
  /\ req[r].pc = "get_mapping"
  /\ LET q == req[r]
         m == RedisGet(q.payload.payment_id)
     IN req' = [req EXCEPT ![r] =
          IF m = NoMapping
          THEN IF q.kind = "push"
               THEN Finish(q, PushError)
               ELSE Finish(q, [code |-> 404, error |-> "Payment not found"])
          ELSE [q EXCEPT !.mapping = m,
                         !.pc = IF q.kind = "push" THEN "upd_get" ELSE "get_payment"]]
  /\ UNCHANGED << now, store, storeExp, shops, order, started, overlap, scen, vreq, vres, session, page, config >>

\* const mapping = await getPaymentMapping(id); if (!mapping) ...
GetMapping(r) ==
  /\ req[r].pc = "get_mapping"
  /\ LET q == req[r]
         m == RedisGet(q.payload.payment_id)
     IN req' = [req EXCEPT ![r] =
          IF m = NoMapping
          THEN IF q.kind = "push"
               THEN Finish(q, PushReply(FALSE, "no_mapping"))
               ELSE Finish(q, [code |-> 404, error |-> "Payment not found"])
          ELSE [q EXCEPT !.mapping = m,
                         !.pc = IF q.kind = "push" THEN "upd_get" ELSE "get_payment"]]
  /\ UNCHANGED << now, store, storeExp, shops, order, started, overlap, scen, vreq, vres, session, page, config >>

\* The response of the poll route when the PayzCore query succeeded.
PollReply(status) ==
  [ code |-> 200, status |-> status,
    is_terminal |-> IsTerminal(status), is_paid |-> IsPaid(status) ]

\* The cached reply with the flags computed from the cached status.
PollCachedReplyTerminal(mapping) ==
  [ code |-> 200, status |-> mapping.status,
    is_terminal |-> IsTerminal(mapping.status), is_paid |-> IsPaid(mapping.status) ]

\* The response of the poll route when the PayzCore query failed.
PollCachedReply(mapping) ==
  [ code |-> 200, status |-> mapping.status,
    is_terminal |-> FALSE, is_paid |-> FALSE ]

\* const result = await payzcore.getPayment(paymentId): PayzCore answers with
\* the payment's status, or the call throws.
GetPaymentFrom(r, statuses) ==
  /\ req[r].pc = "get_payment"
  /\ \E ok \in BOOLEAN, s \in statuses :
       LET q == req[r] IN
       req' = [req EXCEPT ![r] =
         IF ok
         THEN [q EXCEPT !.payload = [q.payload EXCEPT !.status = s], !.pc = "upd_get"]
         ELSE Finish(q, PollCachedReply(q.mapping))]
  /\ UNCHANGED << now, store, storeExp, shops, order, started, overlap, scen, vreq, vres, session, page, config >>

GetPayment(r) == GetPaymentFrom(r, PaymentStatus)

\* The status the poll route hands to updatePaymentMappingStatus.
PollStatusArgCached(mapping, paymentStatus) == mapping.status
PollStatusArg(mapping, paymentStatus) == paymentStatus

\* The status the webhook handler hands to updatePaymentMappingStatus.
PushStatusArg(payload) == payload.status

StatusArg(q) ==
  IF q.kind = "push" THEN PushStatusArg(q.payload)
  ELSE PollStatusArg(q.mapping, q.payload.status)

\* updatePaymentMappingStatus: const expiry = ttl > 0 ? ttl : PAYMENT_TTL
SetExpiry(ttl) == IF ttl > 0 THEN ttl ELSE PAYMENT_TTL

\* Where a request goes on after updatePaymentMappingStatus has returned.
AfterUpdate(q) ==
  IF q.kind = "push" THEN [q EXCEPT !.pc = "get_shop"]
  ELSE Finish(q, PollReply(q.payload.status))

\* updatePaymentMappingStatus, first await: const raw = await redis.get(key)
UpdGet(r) ==
  /\ req[r].pc = "upd_get"
  /\ LET q == req[r]
         raw == RedisGet(q.payload.payment_id)
     IN req' = [req EXCEPT ![r] =
          IF raw = NoMapping THEN AfterUpdate(q)
          ELSE [q EXCEPT !.upd = WithStatus(raw, StatusArg(q)), !.pc = "upd_ttl"]]
  /\ UNCHANGED << now, store, storeExp, shops, order, started, overlap, scen, vreq, vres, session, page, config >>

\* updatePaymentMappingStatus, second await: const ttl = await redis.ttl(key)
UpdTtl(r) ==
  /\ req[r].pc = "upd_ttl"
  /\ req' = [req EXCEPT ![r] =
       [req[r] EXCEPT !.ttl = RedisTtl(req[r].payload.payment_id), !.pc = "upd_set"]]
  /\ UNCHANGED << now, store, storeExp, shops, order, started, overlap, scen, vreq, vres, session, page, config >>

\* The write that also extends the payment's expiresAt on every update.
UpdSetExtending(r) ==
  /\ req[r].pc = "upd_set"
  /\ LET q == req[r]
         p == q.payload.payment_id
     IN /\ store' = [store EXCEPT ![p] =
                       [q.upd EXCEPT !.expiresAt = q.upd.expiresAt + EXPIRES_IN]]
        /\ storeExp' = [storeExp EXCEPT ![p] = now + SetExpiry(q.ttl)]
        /\ req' = [req EXCEPT ![r] = AfterUpdate(q)]
  /\ UNCHANGED << now, shops, order, started, overlap, scen, vreq, vres, session, page, config >>

\* updatePaymentMappingStatus, third await: redis.set(key, json, 'EX', expiry)
UpdSet(r) ==
  /\ req[r].pc = "upd_set"
  /\ LET q == req[r]
         p == q.payload.payment_id
     IN /\ store' = [store EXCEPT ![p] = q.upd]
        /\ storeExp' = [storeExp EXCEPT ![p] = now + SetExpiry(q.ttl)]
        /\ req' = [req EXCEPT ![r] = AfterUpdate(q)]
  /\ UNCHANGED << now, shops, order, started, overlap, scen, vreq, vres, session, page, config >>

\* const shopData = await getShop(mapping.shopDomain), then the switch on
\* payload.event up to the first await of the handler it calls.
GetShop(r) ==
  /\ req[r].pc = "get_shop"
  /\ LET q == req[r]
         e == q.payload.event
     IN req' = [req EXCEPT ![r] =
          IF q.mapping.shopDomain \notin shops
          THEN Finish(q, PushReply(FALSE, "shop_not_found"))
          ELSE IF e \in SuccessEvents THEN [q EXCEPT !.pc = "succ_get_order"]
          ELSE IF e \in CancelEvents THEN [q EXCEPT !.pc = "cancel_get_order"]
          ELSE IF e = "payment.partial" THEN [q EXCEPT !.pc = "add_note"]
          ELSE Finish(q, PushReply(TRUE, ""))]
  /\ UNCHANGED << now, store, storeExp, shops, order, started, overlap, scen, vreq, vres, session, page, config >>

\* ------------------------------------------------------------------ handlers

\* A Shopify call of the handler threw.  handlePaymentSuccess lets it reach
\* the route's catch (500); the other handlers catch it, log it and return,
\* and the route answers processed:true.
Thrown(q) ==
  IF q.payload.event \in SuccessEvents
  THEN Finish(q, PushError)
  ELSE Finish(q, PushReply(TRUE, ""))

\* handlePaymentSuccess: if (order.financial_status === 'paid') return
AlreadyPaid(o) == o.financial_status = "paid"

\* handlePaymentSuccess: const order = await shopify.getOrder(...), inside a
\* try whose catch logs and goes on to markOrderAsPaid.
SuccessGetOrder(r) ==
  /\ req[r].pc = "succ_get_order"
  /\ \E ok \in BOOLEAN :
       LET q == req[r] IN
       req' = [req EXCEPT ![r] =
         IF ok /\ AlreadyPaid(order)
         THEN Finish(q, PushReply(TRUE, ""))
         ELSE [q EXCEPT !.pc = "mark_paid"]]
  /\ UNCHANGED << now, store, storeExp, shops, order, started, overlap, scen, vreq, vres, session, page, config >>

\* ShopifyClient.markOrderAsPaid: POST a capture transaction.  Shopify records
\* it and the order becomes paid, or the call throws.
MarkOrderAsPaid(r) ==
  /\ req[r].pc = "mark_paid"
  /\ \E ok \in BOOLEAN :
       LET q == req[r] IN
       IF ok
       THEN /\ order' = [order EXCEPT !.financial_status = "paid",
                                      !.captures = @ + 1]
            /\ req' = [req EXCEPT ![r] = [q EXCEPT !.pc = "add_note"]]
       ELSE /\ order' = order
            /\ req' = [req EXCEPT ![r] = Thrown([q EXCEPT !.failed = TRUE])]
  /\ UNCHANGED << now, store, storeExp, shops, started, overlap, scen, vreq, vres, session, page, config >>

\* The note text a handler builds, reduced to what tells two notes apart.
NoteText(payload) ==
  IF payload.event = "payment.partial"
  THEN << "Partial crypto payment detected", payload.paid_amount >>
  ELSE << "Crypto payment received", payload.paid_amount >>

\* ShopifyClient.addOrderNote: PUT order.note = note.
AddOrderNote(r) ==
  /\ req[r].pc = "add_note"
  /\ \E ok \in BOOLEAN :
       LET q == req[r] IN
       IF ok
       THEN /\ order' = [order EXCEPT !.note = NoteText(q.payload), !.notes = @ + 1]
            /\ req' = [req EXCEPT ![r] = [q EXCEPT !.pc = "tags_get"]]
       ELSE /\ order' = order
            /\ req' = [req EXCEPT ![r] = Thrown([q EXCEPT !.failed = TRUE])]
  /\ UNCHANGED << now, store, storeExp, shops, started, overlap, scen, vreq, vres, session, page, config >>

\* token.toLowerCase()
ToLowerCase(token) == IF token = "USDT" THEN "usdt" ELSE "usdc"

\* The tags each handler passes to addOrderTags, already split on ', '.
NewTags(q) ==
  LET e == q.payload.event IN
  IF e = "payment.completed"
    THEN << "crypto-paid", "payzcore", ToLowerCase(q.mapping.token) >>
  ELSE IF e = "payment.overpaid"
    THEN << "crypto-paid", "payzcore", ToLowerCase(q.mapping.token), "overpaid" >>
  ELSE IF e = "payment.expired" THEN << "crypto-expired", "payzcore" >>
  ELSE IF e = "payment.cancelled" THEN << "crypto-cancelled", "payzcore" >>
  ELSE << "crypto-partial", "payzcore" >>

\* [...new Set([...currentTags, ...newTags])]
RECURSIVE Merge(_, _)
Merge(tags, more) ==
  IF more = << >> THEN tags
  ELSE IF \E i \in DOMAIN tags : tags[i] = Head(more) THEN Merge(tags, Tail(more))
  ELSE Merge(Append(tags, Head(more)), Tail(more))

\* ShopifyClient.addOrderTags, first await: const order = await getOrder(id)
TagsGetOrder(r) ==
  /\ req[r].pc = "tags_get"
  /\ \E ok \in BOOLEAN :
       LET q == req[r] IN
       req' = [req EXCEPT ![r] =
         IF ok THEN [q EXCEPT !.currentTags = order.tags, !.pc = "tags_put"]
         ELSE Thrown([q EXCEPT !.failed = TRUE])]
  /\ UNCHANGED << now, store, storeExp, shops, order, started, overlap, scen, vreq, vres, session, page, config >>

\* ShopifyClient.addOrderTags, second await: PUT order.tags = merged tags;
\* then the handler returns and the route answers processed:true.
TagsPut(r) ==
  /\ req[r].pc = "tags_put"
  /\ \E ok \in BOOLEAN :
       LET q == req[r] IN
       IF ok
       THEN /\ order' = [order EXCEPT !.tags = Merge(q.currentTags, NewTags(q))]
            /\ req' = [req EXCEPT ![r] = Finish(q, PushReply(TRUE, ""))]
       ELSE /\ order' = order
            /\ req' = [req EXCEPT ![r] = Thrown([q EXCEPT !.failed = TRUE])]
  /\ UNCHANGED << now, store, storeExp, shops, started, overlap, scen, vreq, vres, session, page, config >>

\* The check without its paid half.
CancelNotNeededOnlyCancelled(o) == o.cancelled_at

\* handlePaymentExpired / handlePaymentCancelled:
\* if (order.cancelled_at || order.financial_status === 'paid') return
CancelNotNeeded(o) == o.cancelled_at \/ o.financial_status = "paid"

\* handlePaymentExpired / handlePaymentCancelled: const order = await getOrder
CancelGetOrder(r) ==
  /\ req[r].pc = "cancel_get_order"
  /\ \E ok \in BOOLEAN :
       LET q == req[r] IN
       req' = [req EXCEPT ![r] =
         IF ~ok THEN Thrown(q)
         ELSE IF CancelNotNeeded(order) THEN Finish(q, PushReply(TRUE, ""))
         ELSE [q EXCEPT !.pc = "cancel"]]
  /\ UNCHANGED << now, store, storeExp, shops, order, started, overlap, scen, vreq, vres, session, page, config >>

\* ShopifyClient.cancelOrder: POST /orders/{id}/cancel.json
CancelOrder(r) ==
  /\ req[r].pc = "cancel"
  /\ \E ok \in BOOLEAN :
       LET q == req[r] IN
       IF ok
       THEN /\ order' = [order EXCEPT !.cancelled_at = TRUE, !.cancels = @ + 1]
            /\ req' = [req EXCEPT ![r] = [q EXCEPT !.pc = "tags_get"]]
       ELSE /\ order' = order
            /\ req' = [req EXCEPT ![r] = Thrown([q EXCEPT !.failed = TRUE])]
  /\ UNCHANGED << now, store, storeExp, shops, started, overlap, scen, vreq, vres, session, page, config >>

\* ------------------------------------------------------------------ Spec

Next ==
  \/ Tick
  \/ \E r \in Slots : PushArrive(r)
  \/ \E r \in Slots : PollArrive(r)
  \/ \E r \in Slots : GetMapping(r)
  \/ \E r \in Slots : GetPayment(r)
  \/ \E r \in Slots : UpdGet(r)
  \/ \E r \in Slots : UpdTtl(r)
  \/ \E r \in Slots : UpdSet(r)
  \/ \E r \in Slots : GetShop(r)
  \/ \E r \in Slots : SuccessGetOrder(r)
  \/ \E r \in Slots : MarkOrderAsPaid(r)
  \/ \E r \in Slots : AddOrderNote(r)
  \/ \E r \in Slots : TagsGetOrder(r)
  \/ \E r \in Slots : TagsPut(r)
  \/ \E r \in Slots : CancelGetOrder(r)
  \/ \E r \in Slots : CancelOrder(r)
  \/ \E r \in Slots : Release(r)

Spec == Init /\ [][Next]_vars

\* ------------------------------------------- the signature check on its own

\* The instants at which a webhook is checked.
VerifyNows == {600000, 900000}

\* The timestamp headers tried at the instant nowMs: fresh, at and just past
\* both edges of the window, ten minutes old, a second spelling of nowMs, a
\* string that is no date, the empty string and no header.
VerifyTimestamps(nowMs) ==
  { ToDecimal(nowMs + d) :
      d \in { 0 - 600000, 0 - REPLAY_WINDOW_MS - 1, 0 - REPLAY_WINDOW_MS, 0 - 1, 0,
              REPLAY_WINDOW_MS, REPLAY_WINDOW_MS + 1 } }
  \cup { << "0" >> \o ToDecimal(nowMs),
         [ToDecimal(nowMs) EXCEPT ![1] = "x"],
         << >>, Absent }

\* The raw bodies tried: two payloads, the empty body and no body.
VerifyBodies ==
  { << "payment.completed", "pay_1", "paid", "100" >>,
    << "payment.expired", "pay_1", "expired", "0" >>,
    << >>, Absent }

UpperCase(s) ==
  [i \in DOMAIN s |->
     IF \E k \in 11..16 : HexLower[k] = s[i]
     THEN HexUpper[CHOOSE k \in 11..16 : HexLower[k] = s[i]]
     ELSE s[i]]

LowerCase(s) ==
  [i \in DOMAIN s |->
     IF \E k \in 11..16 : HexUpper[k] = s[i]
     THEN HexLower[CHOOSE k \in 11..16 : HexUpper[k] = s[i]]
     ELSE s[i]]

\* The text a sender signs for a request (an absent part signs as empty).
Sent(x) == IF x = Absent THEN << >> ELSE x

\* The signature headers tried with timestamp T and body B at nowMs: the
\* sender's signature, the same in upper case, the signature of the same
\* body under the fresh timestamp (a replay), the signature of another body,
\* one hex digit changed, one digit short, one digit long, a non-hex
\* character, the empty string and no header.
VerifySignatures(T, B, nowMs) ==
  LET good == SenderSignature(Sent(T), Sent(B)) IN
  { good,
    UpperCase(good),
    SenderSignature(ToDecimal(nowMs), Sent(B)),
    SenderSignature(Sent(T), << "payment.partial", "pay_1", "partial", "30" >>),
    Tampered(good),
    SubSeq(good, 1, SIG_HEX_LEN - 1),
    good \o << "0" >>,
    [good EXCEPT ![1] = "g"],
    << >>, Absent }

InitVerify ==
  /\ InitApp("pending")
  /\ scen = NoScenario
  /\ \E nowMs \in VerifyNows :
       \E T \in VerifyTimestamps(nowMs), B \in VerifyBodies :
         \E sig \in VerifySignatures(T, B, nowMs) :
           vreq = [nowMs |-> nowMs, signature |-> sig, timestamp |-> T, rawBody |-> B]

\* The middleware runs on the request.
VerifyRequest ==
  /\ vres.error = "pending"
  /\ vres' = VerifyPayzCoreWebhook(vreq.signature, vreq.timestamp, vreq.rawBody,
                                   vreq.nowMs)
  /\ UNCHANGED << now, store, storeExp, shops, order, req, started, overlap, scen, vreq, session, page, config >>

NextVerify == VerifyRequest

SpecVerify == InitVerify /\ [][NextVerify]_vars

\* --------------------------------------------- redelivery of one paid push

\* The headers PayzCore sends with a body at the current time.
SenderHeaders(rawBody) ==
  LET ts == ToDecimal(now * 1000) IN
  [signature |-> SenderSignature(ts, rawBody), timestamp |-> ts]

PaidBody == << "payment.completed", "pay_1", "paid", "100" >>

\* PayzCore delivers the payment.completed push of pay_1, once more.
PaidPushArrive(r) ==
  /\ Admit(r)
  /\ Deliver(r, PaidBody, SenderHeaders(PaidBody))
  /\ scen' = [scen EXCEPT !.pushes = @ + 1]
  /\ UNCHANGED << now, store, storeExp, shops, order, vreq, vres, session, page, config >>

NextPaidPushes ==
  \/ Tick
  \/ \E r \in Slots : PaidPushArrive(r)
  \/ \E r \in Slots : GetMapping(r)
  \/ \E r \in Slots : UpdGet(r)
  \/ \E r \in Slots : UpdTtl(r)
  \/ \E r \in Slots : UpdSet(r)
  \/ \E r \in Slots : GetShop(r)
  \/ \E r \in Slots : SuccessGetOrder(r)
  \/ \E r \in Slots : MarkOrderAsPaid(r)
  \/ \E r \in Slots : AddOrderNote(r)
  \/ \E r \in Slots : TagsGetOrder(r)
  \/ \E r \in Slots : TagsPut(r)
  \/ \E r \in Slots : Release(r)

\* Only payment.completed pushes of pay_1 arrive, any number of times up to
\* MaxRequests, one after another or overlapping.
SpecPaidPushes == Init /\ [][NextPaidPushes]_vars

\* ------------------------- one push and one poll that report one status

TerminalStatuses == {"paid", "overpaid", "expired", "cancelled"}

\* The body of the push that reports a terminal status.
TerminalBody(status) ==
  IF status = "paid" THEN PaidBody
  ELSE IF status = "overpaid" THEN << "payment.overpaid", "pay_1", "overpaid", "100" >>
  ELSE IF status = "expired" THEN << "payment.expired", "pay_1", "expired", "0" >>
  ELSE << "payment.cancelled", "pay_1", "cancelled", "0" >>

\* The record holds any status when the two observations arrive.
InitPushAndPoll ==
  /\ \E s0 \in PaymentStatus : InitApp(s0)
  /\ \E s \in TerminalStatuses : scen = [NoScenario EXCEPT !.status = s]
  /\ vreq = NoVerifyRequest

ThePushArrives(r) ==
  /\ scen.pushes = 0
  /\ Admit(r)
  /\ Deliver(r, TerminalBody(scen.status), SenderHeaders(TerminalBody(scen.status)))
  /\ scen' = [scen EXCEPT !.pushes = 1]
  /\ UNCHANGED << now, store, storeExp, shops, order, vreq, vres, session, page, config >>

ThePollArrives(r) ==
  /\ scen.polls = 0
  /\ Admit(r)
  /\ Poll(r, "pay_1")
  /\ scen' = [scen EXCEPT !.polls = 1]
  /\ UNCHANGED << now, store, storeExp, shops, order, vreq, vres, session, page, config >>

\* PayzCore answers the poll with the status the push reports, or fails.
ThePollObserves(r) == GetPaymentFrom(r, {scen.status})

NextPushAndPoll ==
  \/ Tick
  \/ \E r \in Slots : ThePushArrives(r)
  \/ \E r \in Slots : ThePollArrives(r)
  \/ \E r \in Slots : GetMapping(r)
  \/ \E r \in Slots : ThePollObserves(r)
  \/ \E r \in Slots : UpdGet(r)
  \/ \E r \in Slots : UpdTtl(r)
  \/ \E r \in Slots : UpdSet(r)
  \/ \E r \in Slots : GetShop(r)
  \/ \E r \in Slots : SuccessGetOrder(r)
  \/ \E r \in Slots : MarkOrderAsPaid(r)
  \/ \E r \in Slots : AddOrderNote(r)
  \/ \E r \in Slots : TagsGetOrder(r)
  \/ \E r \in Slots : TagsPut(r)
  \/ \E r \in Slots : CancelGetOrder(r)
  \/ \E r \in Slots : CancelOrder(r)

SpecPushAndPoll == InitPushAndPoll /\ [][NextPushAndPoll]_vars

\* ------------------------------------ pushes of every event for one order

\* One body per kind of event the handler knows.
OrderPushBodies ==
  { PaidBody,
    << "payment.expired", "pay_1", "expired", "0" >>,
    << "payment.cancelled", "pay_1", "cancelled", "0" >>,
    << "payment.partial", "pay_1", "partial", "30" >> }

\* PayzCore delivers a push for pay_1, correctly signed.
OrderPushArrive(r) ==
  /\ Admit(r)
  /\ \E rawBody \in OrderPushBodies : Deliver(r, rawBody, SenderHeaders(rawBody))
  /\ UNCHANGED << now, store, storeExp, shops, order, scen, vreq, vres, session, page, config >>

NextOrderPushes ==
  \/ \E r \in Slots : OrderPushArrive(r)
  \/ \E r \in Slots : GetMapping(r)
  \/ \E r \in Slots : UpdGet(r)
  \/ \E r \in Slots : UpdTtl(r)
  \/ \E r \in Slots : UpdSet(r)
  \/ \E r \in Slots : GetShop(r)
  \/ \E r \in Slots : SuccessGetOrder(r)
  \/ \E r \in Slots : MarkOrderAsPaid(r)
  \/ \E r \in Slots : AddOrderNote(r)
  \/ \E r \in Slots : TagsGetOrder(r)
  \/ \E r \in Slots : TagsPut(r)
  \/ \E r \in Slots : CancelGetOrder(r)
  \/ \E r \in Slots : CancelOrder(r)

\* Signed pushes of any event arrive for pay_1, up to MaxRequests of them,
\* one after another or overlapping, within the record's lifetime.
SpecOrderPushes == Init /\ [][NextOrderPushes]_vars

\* ------------------------------------- pushes that fail the signature check

\* A timestamp more than five minutes away from nowMs.
StaleMs(nowMs) ==
  IF nowMs > REPLAY_WINDOW_MS THEN nowMs - REPLAY_WINDOW_MS - 1
  ELSE nowMs + REPLAY_WINDOW_MS + 1

\* Headers that do not verify for rawBody at nowMs: no signature header, no
\* timestamp header, a stale timestamp under its own correct signature, a
\* signature one digit short, and a signature with one digit changed.
BadPushHeaders(rawBody, nowMs) ==
  LET ts == ToDecimal(nowMs)
      stale == ToDecimal(StaleMs(nowMs))
      good == SenderSignature(ts, rawBody)
  IN { [signature |-> Absent, timestamp |-> ts],
       [signature |-> good, timestamp |-> Absent],
       [signature |-> SenderSignature(stale, rawBody), timestamp |-> stale],
       [signature |-> SubSeq(good, 1, SIG_HEX_LEN - 1), timestamp |-> ts],
       [signature |-> Tampered(good), timestamp |-> ts] }

RejectedPushArrive(r) ==
  /\ Admit(r)
  /\ \E rawBody \in OrderPushBodies :
       \E h \in BadPushHeaders(rawBody, now * 1000) : Deliver(r, rawBody, h)
  /\ UNCHANGED << now, store, storeExp, shops, order, scen, vreq, vres, session, page, config >>

NextRejectedPushes ==
  \/ Tick
  \/ \E r \in Slots : RejectedPushArrive(r)
  \/ \E r \in Slots : PollArrive(r)
  \/ \E r \in Slots : GetMapping(r)
  \/ \E r \in Slots : GetPayment(r)
  \/ \E r \in Slots : UpdGet(r)
  \/ \E r \in Slots : UpdTtl(r)
  \/ \E r \in Slots : UpdSet(r)

\* Every push that arrives fails the signature check; polls go on meanwhile.
SpecRejectedPushes == Init /\ [][NextRejectedPushes]_vars

\* ------------------------------------------------------------ polls only

NextPolls ==
  \/ Tick
  \/ \E r \in Slots : PollArrive(r)
  \/ \E r \in Slots : GetMapping(r)
  \/ \E r \in Slots : GetPayment(r)
  \/ \E r \in Slots : UpdGet(r)
  \/ \E r \in Slots : UpdTtl(r)
  \/ \E r \in Slots : UpdSet(r)

\* The payment page polls the status, up to MaxRequests times, while PayzCore
\* reports any status or fails.
SpecPolls == Init /\ [][NextPolls]_vars

\* ----------------------------------- pushes for a payment without a record

\* Pushes for pay_2, which has no record, and the paid push of pay_1, whose
\* record is gone once its time-to-live has run out.
StrayPushBodies ==
  { << "payment.completed", "pay_2", "paid", "100" >>,
    << "payment.expired", "pay_2", "expired", "0" >>,
    PaidBody }

StrayPushArrive(r) ==
  /\ Admit(r)
  /\ \E rawBody \in StrayPushBodies : Deliver(r, rawBody, SenderHeaders(rawBody))
  /\ UNCHANGED << now, store, storeExp, shops, order, scen, vreq, vres, session, page, config >>

NextStrayPushes ==
  \/ Tick
  \/ \E r \in Slots : StrayPushArrive(r)
  \/ \E r \in Slots : GetMapping(r)
  \/ \E r \in Slots : UpdGet(r)
  \/ \E r \in Slots : UpdTtl(r)
  \/ \E r \in Slots : UpdSet(r)
  \/ \E r \in Slots : GetShop(r)
  \/ \E r \in Slots : SuccessGetOrder(r)
  \/ \E r \in Slots : MarkOrderAsPaid(r)
  \/ \E r \in Slots : AddOrderNote(r)
  \/ \E r \in Slots : TagsGetOrder(r)
  \/ \E r \in Slots : TagsPut(r)

SpecStrayPushes == Init /\ [][NextStrayPushes]_vars

\* ------------------------------------------- pushes while Redis is failing

\* The answer of the application's error handler (index.ts), which is where
\* a rejection goes when the framework forwards it.
AppErrorPage == [code |-> 500, page |-> "error"]

\* The store calls of the webhook handler: getPaymentMapping, the three Redis
\* calls of updatePaymentMappingStatus, getShop.
StoreCallPcs == {"get_mapping", "upd_get", "upd_ttl", "upd_set", "get_shop"}

\* A Redis call of the webhook handler rejects.  The three store calls are
\* awaited before the handler's try block, so the rejection leaves the async
\* handler: the framework either drops it (the request gets no response) or
\* hands it to the application's error handler.
StoreFails(r) ==
  /\ req[r].kind = "push"
  /\ req[r].pc \in StoreCallPcs
  /\ \E response \in {NoResp, AppErrorPage} :
       req' = [req EXCEPT ![r] =
                 [Finish(req[r], response) EXCEPT !.pc = "escaped"]]
  /\ UNCHANGED << now, store, storeExp, shops, order, started, overlap, scen, vreq, vres, session, page, config >>

NextStoreFailures ==
  \/ \E r \in Slots : OrderPushArrive(r)
  \/ \E r \in Slots : StoreFails(r)
  \/ \E r \in Slots : GetMapping(r)
  \/ \E r \in Slots : UpdGet(r)
  \/ \E r \in Slots : UpdTtl(r)
  \/ \E r \in Slots : UpdSet(r)
  \/ \E r \in Slots : GetShop(r)
  \/ \E r \in Slots : SuccessGetOrder(r)
  \/ \E r \in Slots : MarkOrderAsPaid(r)
  \/ \E r \in Slots : AddOrderNote(r)
  \/ \E r \in Slots : TagsGetOrder(r)
  \/ \E r \in Slots : TagsPut(r)
  \/ \E r \in Slots : CancelGetOrder(r)
  \/ \E r \in Slots : CancelOrder(r)

\* Signed pushes arrive for pay_1 while any Redis call may fail.
SpecStoreFailures == Init /\ [][NextStoreFailures]_vars

\* ------------------------------------------------------------ OAuth install

\* Shop domains that match /^[a-zA-Z0-9][a-zA-Z0-9-]*\.myshopify\.com$/.
SecondShop == "shop-2.myshopify.com"
MyShopifyDomains == {ShopDomain, SecondShop}

isValidShopDomain(shop) == shop \in MyShopifyDomains

\* The values of a `shop` or `code` query parameter; "" stands for a missing
\* one as well, which `!shop` and `!code` do not tell from an empty one.
ShopParams == MyShopifyDomains \cup {"evil.example.com", ""}
CodeParams == {"code_1", ""}

\* createHmac('sha256', apiSecret).update(`${shop}:${Date.now()}`)
\* .digest('hex').slice(0, 32), idealised as free of collisions.
Nonce(shop, t) == << "nonce", shop, t >>

\* The values of the `state` query parameter: none, a value the application
\* never issued, and the nonces /auth/install can have issued so far.
StateParams ==
  {Absent, Nonce("forged", 0)}
    \cup {Nonce(shop, t) : shop \in MyShopifyDomains,
                           t \in {k * TickSeconds : k \in 0..(now \div TickSeconds)}}

\* The hmac Shopify computes over the other parameters of a query, idealised
\* as free of collisions.
QueryHmac(shop, code, state) == << "hmac", shop, code, state >>

\* The queries a browser can bring to /auth/callback: Shopify signs the
\* parameters of the authorization it was asked for, with or without state.
CallbackQueries ==
  { [shop |-> shop, code |-> code, state |-> state, hmac |-> hmac] :
      shop \in ShopParams, code \in CodeParams, state \in StateParams,
      hmac \in {Absent, << "hmac", "forged" >>} }
    \cup
  { [shop |-> shop, code |-> code, state |-> state,
     hmac |-> QueryHmac(shop, code, state)] :
      shop \in ShopParams, code \in CodeParams, state \in StateParams }

OAuthDone(kind, query, sess, code, text) ==
  [ kind |-> kind, pc |-> "done", query |-> query, session |-> sess,
    resp |-> [code |-> code, text |-> text] ]

\* GET /auth/install: synchronous.  A valid shop gets a nonce, which goes
\* into the session and into the redirect to Shopify.
Install(r) ==
  /\ Admit(r)
  /\ \E shop \in ShopParams :
       LET query == [shop |-> shop]
           nonce == Nonce(shop, now)
           sess == [session EXCEPT !.shopifyNonce = nonce, !.shopDomain = << shop >>]
       IN IF shop = "" \/ ~isValidShopDomain(shop)
          THEN /\ req' = [req EXCEPT ![r] =
                            OAuthDone("install", query, session, 400,
                                      "Missing or invalid shop parameter")]
               /\ session' = session
          ELSE /\ req' = [req EXCEPT ![r] =
                            OAuthDone("install", query, sess, 302, "authorize")]
               /\ session' = sess
  /\ UNCHANGED << now, store, storeExp, shops, order, scen, vreq, vres, page, config >>

\* if (req.session && state !== req.session.shopifyNonce): cookie-session
\* always provides req.session.
StateMismatch(state, sess) == state # sess.shopifyNonce

\* GET /auth/callback up to its first await: verifyShopifyQuery, the checks
\* of shop, code and state, and the call of fetch for the token exchange.
Callback(query, sess) ==
  IF query.hmac = Absent
    THEN OAuthDone("callback", query, sess, 401, "Missing HMAC parameter")
  ELSE IF query.hmac # QueryHmac(query.shop, query.code, query.state)
    THEN OAuthDone("callback", query, sess, 401, "Invalid HMAC signature")
  ELSE IF query.shop = "" \/ ~isValidShopDomain(query.shop)
    THEN OAuthDone("callback", query, sess, 400, "Invalid shop domain")
  ELSE IF query.code = ""
    THEN OAuthDone("callback", query, sess, 400, "Missing authorization code")
  ELSE IF StateMismatch(query.state, sess)
    THEN OAuthDone("callback", query, sess, 403, "State parameter mismatch")
  ELSE [OAuthDone("callback", query, sess, 0, "") EXCEPT !.pc = "token_exchange"]

CallbackArrive(r) ==
  /\ Admit(r)
  /\ \E query \in CallbackQueries :
       req' = [req EXCEPT ![r] = Callback(query, session)]
  /\ UNCHANGED << now, store, storeExp, shops, order, scen, vreq, vres, session, page, config >>

\* const tokenResponse = await fetch(.../admin/oauth/access_token): Shopify
\* accepts the code, or answers not ok, or the call throws.
TokenExchange(r) ==
  /\ req[r].pc = "token_exchange"
  /\ \E ok \in BOOLEAN :
       LET q == req[r] IN
       req' = [req EXCEPT ![r] =
         IF ok THEN [q EXCEPT !.pc = "save_shop"]
         ELSE OAuthDone("callback", q.query, q.session, 500, "Installation failed")]
  /\ UNCHANGED << now, store, storeExp, shops, order, started, overlap, scen, vreq, vres, session, page, config >>

\* await saveShop(shop, {accessToken, ...}); the nonce is cleared and the
\* response carries the session back to the browser.
SaveShop(r) ==
  /\ req[r].pc = "save_shop"
  /\ LET q == req[r]
         sess == [session EXCEPT !.shopifyNonce = JsNull, !.shopDomain = JsNull]
     IN /\ shops' = shops \cup {q.query.shop}
        /\ session' = sess
        /\ req' = [req EXCEPT ![r] =
                     OAuthDone("callback", q.query, sess, 302, "admin/apps")]
  /\ UNCHANGED << now, store, storeExp, order, started, overlap, scen, vreq, vres, page, config >>

NextOAuth ==
  \/ Tick
  \/ \E r \in Slots : Install(r)
  \/ \E r \in Slots : CallbackArrive(r)
  \/ \E r \in Slots : TokenExchange(r)
  \/ \E r \in Slots : SaveShop(r)

\* One browser session goes through /auth/install and /auth/callback.
SpecOAuth == Init /\ [][NextOAuth]_vars

\* ------------------------------------------------- transaction hash submission

\* String.prototype.trim(): white space is dropped at both ends.
WhiteSpace == {" ", "\n"}

RECURSIVE TrimStart(_)
TrimStart(s) ==
  IF s # << >> /\ Head(s) \in WhiteSpace THEN TrimStart(Tail(s)) ELSE s

RECURSIVE TrimEnd(_)
TrimEnd(s) ==
  IF s # << >> /\ s[Len(s)] \in WhiteSpace
  THEN TrimEnd(SubSeq(s, 1, Len(s) - 1)) ELSE s

Trim(s) == TrimEnd(TrimStart(s))

\* .replace(/^0x/, ''): one lower-case 0x at the start is dropped.
StripHexPrefix(s) ==
  IF Len(s) >= 2 /\ s[1] = "0" /\ s[2] = "x" THEN SubSeq(s, 3, Len(s)) ELSE s

\* /^[a-fA-F0-9]{10,128}$/.test(cleanTxHash)
TxHashFormatOk(s) ==
  /\ Len(s) >= TX_HASH_MIN
  /\ Len(s) <= TX_HASH_MAX
  /\ \A i \in DOMAIN s : IsHexChar(s[i])

\* A string of n hex digits, of both cases.
HexString(n) == [i \in 1..n |-> IF i % 3 = 0 THEN HexUpper[(i % 16) + 1]
                                ELSE HexLower[(i % 16) + 1]]

\* req.body?.tx_hash: not sent, a JSON number, or a string.
NoTxHash == [type |-> "undefined", value |-> << >>]
TxHashString(s) == [type |-> "string", value |-> s]

TxHashInputs ==
  { NoTxHash,
    [type |-> "number", value |-> << >>],
    TxHashString(<< >>),
    TxHashString(<< " ", "\n" >>),
    TxHashString(HexString(TX_HASH_MIN - 1)),
    TxHashString(HexString(TX_HASH_MIN)),
    TxHashString(HexString(TX_HASH_MAX)),
    TxHashString(HexString(TX_HASH_MAX + 1)),
    TxHashString(<< "0", "x" >> \o HexString(TX_HASH_MIN - 1)),
    TxHashString(<< "0", "x" >> \o HexString(TX_HASH_MIN)),
    TxHashString(<< "0", "x" >> \o HexString(TX_HASH_MAX)),
    TxHashString(<< "0", "X" >> \o HexString(TX_HASH_MIN)),
    TxHashString(<< "0", "x", "0", "x" >> \o HexString(TX_HASH_MIN)),
    TxHashString(<< " " >> \o HexString(TX_HASH_MIN) \o << "\n" >>),
    TxHashString(<< " ", "0", "x" >> \o HexString(TX_HASH_MIN)),
    TxHashString(HexString(5) \o << " " >> \o HexString(5)),
    TxHashString(HexString(TX_HASH_MIN) \o << "g" >>) }

\* The records /payment/create can have stored for pay_1: PayzCore asked for
\* the payer's transaction hash and named an endpoint, or did not.
ConfirmRecords ==
  { CreatedMapping,
    [CreatedMapping EXCEPT !.requiresTxid = FALSE],
    [CreatedMapping EXCEPT !.confirmEndpoint = ""],
    [CreatedMapping EXCEPT !.requiresTxid = FALSE, !.confirmEndpoint = ""] }

InitConfirm ==
  /\ \E mapping \in ConfirmRecords : InitStore(mapping)
  /\ scen = NoScenario
  /\ vreq = NoVerifyRequest

NoCall == [endpoint |-> "", txHash |-> << >>]

ConfirmDone(q, code, text) ==
  [ kind |-> "confirm", pc |-> "done", paymentId |-> q.paymentId,
    txHash |-> NoTxHash, call |-> q.call,
    resp |-> [code |-> code, error |-> text] ]

\* POST /payment/:paymentId/confirm up to its first await.
ConfirmArrive(r) ==
  /\ Admit(r)
  /\ \E p \in PaymentIds, h \in TxHashInputs :
       req' = [req EXCEPT ![r] =
                 [ kind |-> "confirm", pc |-> "confirm_get_mapping",
                   paymentId |-> p, txHash |-> h, call |-> NoCall,
                   resp |-> NoResp ]]
  /\ UNCHANGED << now, store, storeExp, shops, order, scen, vreq, vres, session, page, config >>

\* The check that lets only the record's endpoint through.
ConfirmNotRequiredEndpointOnly(mapping) == mapping.confirmEndpoint = ""

\* if (!mapping.requiresTxid || !mapping.confirmEndpoint)
ConfirmNotRequired(mapping) ==
  ~mapping.requiresTxid \/ mapping.confirmEndpoint = ""

\* if (!txHash || typeof txHash !== 'string' || txHash.trim().length === 0)
TxHashMissing(h) ==
  h.type # "string" \/ h.value = << >> \/ Len(Trim(h.value)) = 0

\* const mapping = await getPaymentMapping(paymentId), the checks of the
\* record and of the hash, and the call of payzcore.confirmPayment.
ConfirmGetMapping(r) ==
  /\ req[r].pc = "confirm_get_mapping"
  /\ LET q == req[r]
         mapping == RedisGet(q.paymentId)
     IN req' = [req EXCEPT ![r] =
          IF mapping = NoMapping
            THEN ConfirmDone(q, 404, "Payment not found")
          ELSE IF ConfirmNotRequired(mapping)
            THEN ConfirmDone(q, 400, "Transaction hash submission is not required")
          ELSE IF TxHashMissing(q.txHash)
            THEN ConfirmDone(q, 400, "Missing or invalid tx_hash")
          ELSE IF ~TxHashFormatOk(StripHexPrefix(Trim(q.txHash.value)))
            THEN ConfirmDone(q, 400, "Invalid transaction hash format")
          ELSE [q EXCEPT !.pc = "confirm_call",
                         !.call = [endpoint |-> mapping.confirmEndpoint,
                                   txHash |-> Trim(q.txHash.value)]]]
  /\ UNCHANGED << now, store, storeExp, shops, order, started, overlap, scen, vreq, vres, session, page, config >>

\* PayzCoreClient.confirmPayment: PayzCore answers, and the route passes the
\* answer on, or the call throws and the route answers 500.
ConfirmPayment(r) ==
  /\ req[r].pc = "confirm_call"
  /\ \E ok \in BOOLEAN :
       req' = [req EXCEPT ![r] =
         IF ok THEN ConfirmDone(req[r], 200, "")
         ELSE ConfirmDone(req[r], 500, "Failed to submit transaction hash")]
  /\ UNCHANGED << now, store, storeExp, shops, order, started, overlap, scen, vreq, vres, session, page, config >>

NextConfirm ==
  \/ Tick
  \/ \E r \in Slots : ConfirmArrive(r)
  \/ \E r \in Slots : ConfirmGetMapping(r)
  \/ \E r \in Slots : ConfirmPayment(r)

\* The payment page submits transaction hashes, up to MaxRequests of them.
SpecConfirm == InitConfirm /\ [][NextConfirm]_vars

\* ------------------------------------------------------------ the payment page

\* Math.max(0, Math.floor((expiresAt - now) / 1000)), in seconds.
Remaining ==
  IF CreatedMapping.expiresAt > now THEN CreatedMapping.expiresAt - now ELSE 0

\* disableTxidForm()
disableTxidForm(p) == [p EXCEPT !.txidInputDisabled = TRUE, !.txidBtnDisabled = TRUE]

\* showExpired()
showExpired(p) == [p EXCEPT !.paymentCard = FALSE, !.expiredOverlay = TRUE]

\* showSuccess(amount): the overlay, and a setTimeout for the redirect.
showSuccess(p) ==
  [p EXCEPT !.paymentCard = FALSE, !.successOverlay = TRUE,
            !.showSuccessCalls = @ + 1, !.redirects = @ + 1]

\* stopPolling(), clearInterval(countdownTimer)
stopPolling(p) == [p EXCEPT !.pollTimer = FALSE]
clearCountdown(p) == [p EXCEPT !.countdownTimer = FALSE]

\* updateCountdown(), called by the countdown interval every second.
UpdateCountdown ==
  /\ page.countdownTimer /\ ~page.unloaded
  /\ page' = IF Remaining <= 0 /\ ~page.isTerminal
             THEN showExpired(disableTxidForm(
                    [clearCountdown(page) EXCEPT !.timerExpired = TRUE]))
             ELSE [page EXCEPT !.countdown = Remaining]
  /\ UNCHANGED << now, store, storeExp, shops, order, req, started, overlap, scen, vreq, vres, session, config >>

\* pollStatus(), called by the polling interval every ten seconds: the
\* request is sent, and the server handler runs up to its first await.
PollStatus(r) ==
  /\ page.pollTimer /\ ~page.unloaded
  /\ IF page.isTerminal
     THEN /\ page' = stopPolling(page)
          /\ UNCHANGED << req, started, overlap >>
     ELSE /\ Admit(r)
          /\ Poll(r, "pay_1")
          /\ page' = page
  /\ UNCHANGED << now, store, storeExp, shops, order, scen, vreq, vres, session, config >>

\* handlePollFailure()
handlePollFailure(p) ==
  [p EXCEPT !.consecutivePollFailures = @ + 1,
            !.pollWarning = @ \/ p.consecutivePollFailures + 1 >= MAX_POLL_FAILURES]

\* The update that stops the polling but leaves the countdown running.
handleStatusUpdateKeepsCountdown(p, data) ==
  LET q == [p EXCEPT !.banner = data.status] IN
  IF data.is_paid
    THEN showSuccess(stopPolling([q EXCEPT !.isTerminal = TRUE]))
  ELSE IF data.status = "expired" \/ data.status = "cancelled"
    THEN showExpired(disableTxidForm(
           [stopPolling([q EXCEPT !.isTerminal = TRUE]) EXCEPT !.timerExpired = TRUE]))
  ELSE q

\* The update whose expired branch leaves timerExpired alone.
handleStatusUpdateWithoutTimerExpired(p, data) ==
  LET q == [p EXCEPT !.banner = data.status] IN
  IF data.is_paid
    THEN showSuccess(clearCountdown(stopPolling([q EXCEPT !.isTerminal = TRUE])))
  ELSE IF data.status = "expired" \/ data.status = "cancelled"
    THEN showExpired(disableTxidForm(
           clearCountdown(stopPolling([q EXCEPT !.isTerminal = TRUE]))))
  ELSE q

\* handleStatusUpdate(data)
handleStatusUpdate(p, data) ==
  LET q == [p EXCEPT !.banner = data.status] IN
  IF data.is_paid
    THEN showSuccess(clearCountdown(stopPolling([q EXCEPT !.isTerminal = TRUE])))
  ELSE IF data.status = "expired" \/ data.status = "cancelled"
    THEN showExpired(disableTxidForm(
           [clearCountdown(stopPolling([q EXCEPT !.isTerminal = TRUE]))
              EXCEPT !.timerExpired = TRUE]))
  ELSE q

\* The status request of slot r ends in the page: xhr.onreadystatechange
\* with the server's response, or with status 0 followed by xhr.onerror (or
\* xhr.ontimeout) when the response does not arrive.
PollResponse(r) ==
  /\ req[r].kind = "poll" /\ req[r].pc = "done"
  /\ ~page.unloaded
  /\ \E arrived \in BOOLEAN :
       page' = IF ~arrived THEN handlePollFailure(handlePollFailure(page))
               ELSE IF req[r].resp.code # 200 THEN handlePollFailure(page)
               ELSE handleStatusUpdate(
                      [page EXCEPT !.consecutivePollFailures = 0, !.pollWarning = FALSE],
                      req[r].resp)
  /\ req' = [req EXCEPT ![r] = IdleRequest]
  /\ UNCHANGED << now, store, storeExp, shops, order, started, overlap, scen, vreq, vres, session, config >>

\* The timeout of showSuccess fires: window.location.href = ...; the page
\* and its timers are gone.
Redirect ==
  /\ page.redirects > 0 /\ ~page.unloaded
  /\ page' = [page EXCEPT !.unloaded = TRUE]
  /\ UNCHANGED << now, store, storeExp, shops, order, req, started, overlap, scen, vreq, vres, session, config >>

\* The statuses PayzCore reports to the page's polls: one for each branch of
\* handleStatusUpdate that changes the page's state.
PageStatuses == {"confirming", "paid", "expired", "cancelled"}

\* PayzCore answers a poll of the page, or fails.
PagePayment(r) == GetPaymentFrom(r, PageStatuses)

NextPage ==
  \/ Tick
  \/ UpdateCountdown
  \/ Redirect
  \/ \E r \in Slots : PollStatus(r)
  \/ \E r \in Slots : PollResponse(r)
  \/ \E r \in Slots : GetMapping(r)
  \/ \E r \in Slots : PagePayment(r)
  \/ \E r \in Slots : UpdGet(r)
  \/ \E r \in Slots : UpdTtl(r)
  \/ \E r \in Slots : UpdSet(r)

\* The payment page of pay_1 counts down and polls, up to MaxRequests times,
\* while PayzCore reports any status or fails.
SpecPage == Init /\ [][NextPage]_vars

\* ------------------------------------- the payment page's transaction hash form

\* hash.replace(/^0x/i, ''): one 0x or 0X at the start is dropped.
StripHexPrefixAnyCase(s) ==
  IF Len(s) >= 2 /\ s[1] = "0" /\ s[2] \in {"x", "X"}
  THEN SubSeq(s, 3, Len(s)) ELSE s

\* isValidTxHash(hash)
isValidTxHash(hash) == TxHashFormatOk(StripHexPrefixAnyCase(hash))

\* What the payer can have typed into the form's input.
TxidInputValues ==
  { << >>,
    HexString(TX_HASH_MIN - 1),
    HexString(TX_HASH_MIN),
    << "0", "x" >> \o HexString(TX_HASH_MIN),
    << "0", "X" >> \o HexString(TX_HASH_MIN),
    << " " >> \o HexString(TX_HASH_MIN) \o << "\n" >>,
    HexString(TX_HASH_MIN) \o << "g" >>,
    HexString(TX_HASH_MAX + 1) }

\* The payer types one of `values` into the form's input, unless it is
\* disabled.
TypeTxHashFrom(values) ==
  /\ ~page.unloaded /\ ~page.txidInputDisabled
  /\ \E value \in values \ {page.txidInput} :
       page' = [page EXCEPT !.txidInput = value]
  /\ UNCHANGED << now, store, storeExp, shops, order, req, started, overlap, scen, vreq, vres, session, config >>

TypeTxHash == TypeTxHashFrom(TxidInputValues)

\* The payer types a well-formed hash.
TypeGoodTxHash == TypeTxHashFrom({<< "0", "x" >> \o HexString(TX_HASH_MIN)})

\* window.submitTxHash(), with what the input holds; when the form passes,
\* the request is sent and the server handler runs up to its first await.
SubmitTxHash(r) ==
  /\ ~page.unloaded
  /\ LET p == page
         txHash == Trim(p.txidInput)
     IN IF page.timerExpired \/ txHash = << >> \/ ~isValidTxHash(txHash)
          THEN /\ page' = [p EXCEPT !.txidStatus =
                             IF page.timerExpired THEN "Payment has expired"
                             ELSE IF txHash = << >> THEN "Please enter a transaction hash"
                             ELSE "Invalid format"]
               /\ UNCHANGED << req, started, overlap >>
          ELSE /\ Admit(r)
               /\ req' = [req EXCEPT ![r] =
                            [ kind |-> "confirm", pc |-> "confirm_get_mapping",
                              paymentId |-> "pay_1", txHash |-> TxHashString(txHash),
                              call |-> NoCall, resp |-> NoResp ]]
               /\ page' = [p EXCEPT !.txidBtnDisabled = TRUE, !.txidStatus = ""]
  /\ UNCHANGED << now, store, storeExp, shops, order, scen, vreq, vres, session, config >>

\* The confirm request of slot r ends in the page: xhr.onreadystatechange
\* with the server's response, or with status 0 followed by xhr.onerror.
ConfirmResponse(r) ==
  /\ req[r].kind = "confirm" /\ req[r].pc = "done"
  /\ ~page.unloaded
  /\ \E arrived \in BOOLEAN :
       LET p == [page EXCEPT !.txidBtnDisabled = FALSE] IN
       page' = IF ~arrived THEN [p EXCEPT !.txidStatus = "Network error"]
               ELSE IF req[r].resp.code = 200
               THEN [p EXCEPT !.txidStatus = "Transaction hash submitted",
                              !.txidInputDisabled = TRUE, !.txidBtnHidden = TRUE]
               ELSE [p EXCEPT !.txidStatus = req[r].resp.error]
  /\ req' = [req EXCEPT ![r] = IdleRequest]
  /\ UNCHANGED << now, store, storeExp, shops, order, started, overlap, scen, vreq, vres, session, config >>

NextPageTxid ==
  \/ Tick
  \/ UpdateCountdown
  \/ Redirect
  \/ TypeTxHash
  \/ \E r \in Slots : PollStatus(r)
  \/ \E r \in Slots : PollResponse(r)
  \/ \E r \in Slots : SubmitTxHash(r)
  \/ \E r \in Slots : ConfirmResponse(r)
  \/ \E r \in Slots : GetMapping(r)
  \/ \E r \in Slots : PagePayment(r)
  \/ \E r \in Slots : UpdGet(r)
  \/ \E r \in Slots : UpdTtl(r)
  \/ \E r \in Slots : UpdSet(r)
  \/ \E r \in Slots : ConfirmGetMapping(r)
  \/ \E r \in Slots : ConfirmPayment(r)

\* The payment page of pay_1 counts down, polls, and submits what the payer
\* types into the transaction hash form.
SpecPageTxid == Init /\ [][NextPageTxid]_vars

\* -------------------------------- the transaction hash form and the expiry

\* PayzCore reports the end of the payment to a poll of the page, or fails.
ExpiryPayment(r) == GetPaymentFrom(r, {"expired", "cancelled"})

NextPageExpiry ==
  \/ Tick
  \/ UpdateCountdown
  \/ TypeGoodTxHash
  \/ \E r \in Slots : PollStatus(r)
  \/ \E r \in Slots : PollResponse(r)
  \/ \E r \in Slots : SubmitTxHash(r)
  \/ \E r \in Slots : ConfirmResponse(r)
  \/ \E r \in Slots : GetMapping(r)
  \/ \E r \in Slots : ExpiryPayment(r)
  \/ \E r \in Slots : UpdGet(r)
  \/ \E r \in Slots : UpdTtl(r)
  \/ \E r \in Slots : UpdSet(r)
  \/ \E r \in Slots : ConfirmGetMapping(r)
  \/ \E r \in Slots : ConfirmPayment(r)

\* The payer types a well-formed hash and submits it at any moment, before
\* or after the countdown has run out or a poll has reported the expiry.
SpecPageExpiry == Init /\ [][NextPageExpiry]_vars

\* ------------------------------------------------------------ configuration

NetworkValues == {Absent, << >>, << "TRC20" >>, << "BEP20" >>, << "SOLANA" >>}
ChainValues == {Absent, << "ERC20" >>}
TokenValues == {Absent, << "USDT" >>, << "USDC" >>, << "DAI" >>}
EnabledValues ==
  { Absent, << >>, << "TRC20" >>, << "BEP20", ",", " ", "TRC20" >>,
    << "SOLANA", ",", "POLYGON" >>, << "SOLANA" >> }
EnabledChainValues == {Absent, << "ARBITRUM" >>}

\* The environments a process is started in.
Envs ==
  [ DEFAULT_NETWORK : NetworkValues, DEFAULT_CHAIN : ChainValues,
    DEFAULT_TOKEN : TokenValues, ENABLED_NETWORKS : EnabledValues,
    ENABLED_CHAINS : EnabledChainValues, required : BOOLEAN ]

\* The bodies /v1/config answers with.
ApiConfigs ==
  [ networks : { Absent, << >>, << "TRC20" >>, << "BEP20", "TRC20" >>,
                 << "SOLANA", "ERC20" >>, << "SOLANA" >> },
    default_token : {"", "USDT", "USDC", "DAI"} ]

\* A process before index.ts has loaded its configuration.
InitConfig ==
  /\ \E env \in Envs :
       InitProcess(NoMapping, [pc |-> "boot", env |-> env, app |-> NoAppConfig])
  /\ scen = NoScenario
  /\ vreq = NoVerifyRequest

\* const config = loadConfig(): a throw ends the process.
LoadConfig ==
  /\ config.pc = "boot"
  /\ LET loaded == loadConfig(config.env)
     IN config' = [config EXCEPT !.pc = IF loaded.ok THEN "loaded" ELSE "exited",
                                 !.app = loaded.app]
  /\ UNCHANGED << now, store, storeExp, shops, order, req, started, overlap,
                  scen, vreq, vres, session, page >>

\* await fetchConfigFromApi(config), then app.listen: nothing is fetched when
\* the environment lists the networks; a failed fetch, a status that is not
\* ok or a body that is no JSON leaves the configuration as it is.
FetchConfigFromApi ==
  /\ config.pc = "loaded"
  /\ IF ~Falsy(config.env.ENABLED_NETWORKS) \/ ~Falsy(config.env.ENABLED_CHAINS)
     THEN config' = [config EXCEPT !.pc = "serving"]
     ELSE \E answered \in BOOLEAN, data \in ApiConfigs :
            config' = [config EXCEPT
                         !.pc = "serving",
                         !.app = IF answered THEN ApplyApiConfig(@, data) ELSE @]
  /\ UNCHANGED << now, store, storeExp, shops, order, req, started, overlap,
                  scen, vreq, vres, session, page >>

NextConfig == LoadConfig \/ FetchConfigFromApi

SpecConfig == InitConfig /\ [][NextConfig]_vars

\* ----------------------------------------------------------- /payment/create

NaN == [nan |-> TRUE, cents |-> 0]

\* parseFloat(s) of the amounts of the model, in hundredths.
parseFloat(s) ==
  CASE s = "100" -> [nan |-> FALSE, cents |-> 10000]
    [] s = "120" -> [nan |-> FALSE, cents |-> 12000]
    [] OTHER -> NaN

\* total_outstanding of order 1001 in Shopify.
OrderTotal == "100"

\* isValidNetwork(value), isValidToken(value)
isValidNetwork(value) == value \in VALID_NETWORKS
isValidToken(value) == value \in VALID_TOKENS

\* The configurations of a listening process: nothing set, two networks
\* listed, a default pair that loadConfig accepts while the first listed
\* network does not support the token, and one network with USDC.
CreateEnvs ==
  { NoEnv,
    [NoEnv EXCEPT !.ENABLED_NETWORKS = << "TRC20", ",", "BEP20" >>],
    [NoEnv EXCEPT !.DEFAULT_NETWORK = << "BEP20" >>, !.DEFAULT_TOKEN = << "USDC" >>,
                  !.ENABLED_NETWORKS = << "TRC20" >>],
    [NoEnv EXCEPT !.DEFAULT_NETWORK = << "BEP20" >>, !.DEFAULT_TOKEN = << "USDC" >>] }

CreateConfigs ==
  { [pc |-> "serving", env |-> env, app |-> loadConfig(env).app] : env \in CreateEnvs }

\* The query strings of GET /payment/create; "" is a missing parameter.
CreateQuery ==
  [ shop |-> ShopDomain, order_id |-> "1001", amount |-> "100",
    network |-> "", token |-> "", return_url |-> "" ]

CreateQueries ==
  { [CreateQuery EXCEPT !.shop = s] : s \in {SecondShop, "evil.example"} }
  \cup { [CreateQuery EXCEPT !.order_id = ""] }
  \cup { [CreateQuery EXCEPT !.amount = a] : a \in {"abc", "120"} }
  \cup { [CreateQuery EXCEPT !.network = n, !.token = t] :
           n \in {"", "BEP20", "SOLANA"}, t \in {"", "USDC"} }
  \cup { [CreateQuery EXCEPT !.return_url = "javascript:alert(1)"] }

\* What the order read answers: the fetch throws, the status is not ok, or
\* the order with the financial status it has in Shopify at that moment.
FinancialStatuses == {"pending", "paid", "refunded", "voided"}
NoOrderData == [read |-> "none", financial_status |-> "", total |-> ""]
OrderReads ==
  { [read |-> "throws", financial_status |-> "", total |-> ""],
    [read |-> "not_ok", financial_status |-> "", total |-> ""] }
  \cup { [read |-> "ok", financial_status |-> f, total |-> OrderTotal] :
           f \in FinancialStatuses }

NoCreateParams ==
  [sent |-> FALSE, amount |-> 0, network |-> "", token |-> "", expires_in |-> 0]
NoPayment == [id |-> "", token |-> "", status |-> ""]

\* res.status(code).render(...) or res.redirect(...), and the handler returns.
CreateDone(q, code, text) ==
  [q EXCEPT !.pc = "done", !.resp = [code |-> code, page |-> text]]

\* includes(network) on the list of enabled networks.
Enabled(app, network) ==
  \E i \in 1..Len(app.enabledNetworks) : app.enabledNetworks[i] = network

\* GET /create up to `await getShop(shop)`.
CreateArrive(r) ==
  /\ Admit(r)
  /\ \E query \in CreateQueries :
       LET q == [ kind |-> "create", pc |-> "create_get_shop", query |-> query,
                  network |-> "", token |-> "", verifiedAmount |-> 0,
                  order |-> NoOrderData, call |-> NoCreateParams,
                  payment |-> NoPayment, resp |-> NoResp ]
       IN req' = [req EXCEPT ![r] =
            IF query.shop = "" \/ ~isValidShopDomain(query.shop)
            THEN CreateDone(q, 400, "Invalid Request")
            ELSE IF query.order_id = "" \/ query.amount = ""
            THEN CreateDone(q, 400, "Invalid Request")
            ELSE q]
  /\ UNCHANGED << now, store, storeExp, shops, order, scen, vreq, vres, session, page, config >>

\* From the answer of getShop to the fetch of the order: the network
\* selector, the network and the token of the payment, and the amount.
CreateGetShop(r) ==
  /\ req[r].pc = "create_get_shop"
  /\ LET q == req[r]
         query == q.query
         app == config.app
         shopData == query.shop \in shops
         showNetworkSelector == Len(app.enabledNetworks) > 1
         networkSpecified == query.network # "" /\ isValidNetwork(query.network)
         paymentNetwork == IF networkSpecified THEN query.network ELSE app.defaultNetwork
         paymentToken == IF query.token # "" /\ isValidToken(query.token)
                         THEN query.token ELSE app.defaultToken
         requestedAmount == parseFloat(query.amount)
     IN req' = [req EXCEPT ![r] =
          IF ~shopData THEN CreateDone(q, 403, "App Not Installed")
          ELSE IF showNetworkSelector /\ ~networkSpecified
          THEN CreateDone(q, 200, "network-select")
          ELSE IF ~Enabled(app, paymentNetwork)
          THEN CreateDone(q, 400, "Invalid Network")
          ELSE IF ~isValidNetworkToken(paymentNetwork, paymentToken)
          THEN CreateDone(q, 400, "Invalid Configuration")
          ELSE IF requestedAmount.nan \/ requestedAmount.cents <= 0
          THEN CreateDone(q, 400, "Invalid Amount")
          ELSE [q EXCEPT !.pc = "create_get_order", !.network = paymentNetwork,
                         !.token = paymentToken]]
  /\ UNCHANGED << now, store, storeExp, shops, order, started, overlap, scen, vreq, vres, session, page, config >>

\* VerifyOrder without its look at the financial status.
VerifyOrderAnyStatus(q, data) ==
  LET verifiedAmount == parseFloat(data.total)
      requestedAmount == parseFloat(q.query.amount)
      diff == verifiedAmount.cents - requestedAmount.cents
      seen == [q EXCEPT !.order = data]
  IN IF data.read = "throws" THEN CreateDone(seen, 500, "Verification Error")
     ELSE IF data.read = "not_ok" THEN CreateDone(seen, 400, "Order Verification Failed")
     ELSE IF ~verifiedAmount.nan /\ (diff > 1 \/ -diff > 1)
     THEN CreateDone(seen, 400, "Amount Mismatch")
     ELSE [seen EXCEPT !.pc = "create_payment", !.verifiedAmount = verifiedAmount.cents]

\* The try block around the order read: what the handler makes of the
\* answer `data`.  Math.abs(verifiedAmount - requestedAmount) > 0.01 is false
\* when verifiedAmount is NaN.
VerifyOrder(q, data) ==
  LET verifiedAmount == parseFloat(data.total)
      requestedAmount == parseFloat(q.query.amount)
      diff == verifiedAmount.cents - requestedAmount.cents
      seen == [q EXCEPT !.order = data]
  IN IF data.read = "throws" THEN CreateDone(seen, 500, "Verification Error")
     ELSE IF data.read = "not_ok" THEN CreateDone(seen, 400, "Order Verification Failed")
     ELSE IF data.financial_status \in {"paid", "refunded", "voided"}
     THEN CreateDone(seen, 400, "Order Already Paid")
     ELSE IF ~verifiedAmount.nan /\ (diff > 1 \/ -diff > 1)
     THEN CreateDone(seen, 400, "Amount Mismatch")
     ELSE [seen EXCEPT !.pc = "create_payment", !.verifiedAmount = verifiedAmount.cents]

\* The order read has answered.
CreateGetOrder(r) ==
  /\ req[r].pc = "create_get_order"
  /\ \E data \in OrderReads : req' = [req EXCEPT ![r] = VerifyOrder(req[r], data)]
  /\ UNCHANGED << now, store, storeExp, shops, order, started, overlap, scen, vreq, vres, session, page, config >>

\* The payment ids PayzCore has not given out.
FreePaymentIds ==
  { p \in PaymentIds :
      /\ store[p] = NoMapping
      /\ \A r \in Slots : req[r].kind = "create" => req[r].payment.id # p }

confirmEndpointOf(p) ==
  IF p = "pay_1" THEN "/v1/payments/pay_1/confirm" ELSE "/v1/payments/pay_2/confirm"

\* await payzcore.createPayment(createParams): PayzCore answers with a new
\* payment, whose token field may be empty, or the call throws.
CreatePayment(r) ==
  /\ req[r].pc = "create_payment"
  /\ LET q == req[r]
         createParams ==
           [ sent |-> TRUE, amount |-> q.verifiedAmount, network |-> q.network,
             token |-> q.token, expires_in |-> EXPIRES_IN ]
         called == [q EXCEPT !.call = createParams]
     IN \E ok \in BOOLEAN, token \in {"", "USDT"} :
          req' = [req EXCEPT ![r] =
            IF ok /\ FreePaymentIds # {}
            THEN [called EXCEPT
                    !.pc = "create_save",
                    !.payment = [ id |-> IF "pay_1" \in FreePaymentIds
                                         THEN "pay_1" ELSE "pay_2",
                                  token |-> token, status |-> "pending" ]]
            ELSE CreateDone(called, 500, "Payment Error")]
  /\ UNCHANGED << now, store, storeExp, shops, order, started, overlap, scen, vreq, vres, session, page, config >>

\* The https return_url of the query, or the account page of the shop.
safeReturnUrl(query) ==
  IF query.return_url \in {"https://store.example/thanks"}
  THEN << query.return_url >>
  ELSE << "https://", query.shop, "/account" >>

\* await savePaymentMapping(payment.id, {...}), the return URL of the
\* session and the redirect to the payment page.
CreateSave(r) ==
  /\ req[r].pc = "create_save"
  /\ LET q == req[r]
         payment == q.payment
         resolvedToken == IF payment.token # "" THEN payment.token ELSE q.token
         mapping ==
           [CreatedMapping EXCEPT
              !.shopDomain = q.query.shop,
              !.amount = q.query.amount,
              !.network = q.network,
              !.token = resolvedToken,
              !.payzCorePaymentId = payment.id,
              !.expiresAt = now + EXPIRES_IN,
              !.status = payment.status,
              !.createdAt = now,
              !.confirmEndpoint = confirmEndpointOf(payment.id)]
     IN /\ store' = [store EXCEPT ![payment.id] = mapping]
        /\ storeExp' = [storeExp EXCEPT ![payment.id] = now + PAYMENT_TTL]
        /\ session' = [session EXCEPT !.returnUrl = safeReturnUrl(q.query)]
        /\ req' = [req EXCEPT ![r] = CreateDone(q, 302, "/payment/:id")]
  /\ UNCHANGED << now, shops, order, started, overlap, scen, vreq, vres, page, config >>

\* A listening process with no payment in Redis.
InitCreate ==
  /\ \E cfg \in CreateConfigs : InitProcess(NoMapping, cfg)
  /\ scen = NoScenario
  /\ vreq = NoVerifyRequest

NextCreate ==
  \/ \E r \in Slots : CreateArrive(r)
  \/ \E r \in Slots : CreateGetShop(r)
  \/ \E r \in Slots : CreateGetOrder(r)
  \/ \E r \in Slots : CreatePayment(r)
  \/ \E r \in Slots : CreateSave(r)

SpecCreate == InitCreate /\ [][NextCreate]_vars

\* ------------------------------------------------------------------ claims

\* The record of pay_1 is in the store.
Stored == store["pay_1"] # NoMapping

\* Request r is a push that has been answered with `code`.
PushAnswered(r, code) ==
  req[r].kind = "push" /\ req[r].pc = "done" /\ req[r].resp.code = code

\* C1: once the stored status of the record is terminal (paid, overpaid,
\* expired or cancelled), no step of any push or poll changes it.
C1_TerminalStatusKept ==
  [][ (Stored /\ IsTerminal(store["pay_1"].status) /\ store'["pay_1"] # NoMapping)
        => store'["pay_1"].status = store["pay_1"].status ]_vars

\* C2: when the payment.completed push of one payment is delivered again and
\* again, one delivery after the other, exactly one capture transaction is
\* recorded on the order: never two, and one as soon as a delivery has been
\* answered as processed.
C2_ExactlyOneCapture ==
  ~overlap =>
    /\ order.captures <= 1
    /\ (\E r \in Slots : PushAnswered(r, 200) /\ req[r].resp.processed)
         => order.captures = 1

\* C3: the read-decide-write of a paid push is serialized per record: while
\* one paid push has passed the already-paid check and has not yet recorded
\* its capture, no second paid push is past that check.
C3_CheckAndCaptureSerialized ==
  Cardinality({r \in Slots : req[r].pc = "mark_paid"}) <= 1

\* C4: one push and one poll report the same terminal status for one record.
\* Whatever the interleaving, once both have been answered the stored status
\* is that status, and no more than one capture, one cancellation and one
\* note have been made on the order.
C4_SameStatusEachEffectOnce ==
  /\ order.captures <= 1
  /\ order.cancels <= 1
  /\ order.notes <= 1
  /\ (scen.pushes = 1 /\ scen.polls = 1 /\ InFlight = {} /\ Stored)
       => store["pay_1"].status = scen.status

\* C4, witness: the push and the poll overlapped, the poll read the record
\* while it held another status, both have been answered, the poll with the
\* status PayzCore reported, and the push has made its change to the order.
C4_Witness ==
  /\ overlap
  /\ InFlight = {}
  /\ Stored
  /\ store["pay_1"].status = scen.status
  /\ order.captures + order.cancels = 1
  /\ \E r \in Slots : PushAnswered(r, 200) /\ req[r].resp.processed
  /\ \E r \in Slots :
       /\ req[r].kind = "poll"
       /\ req[r].pc = "done"
       /\ req[r].resp.code = 200
       /\ req[r].resp.is_terminal
       /\ req[r].mapping.status # scen.status

\* C5: when a push or poll observation is written to a record whose
\* expiresAt has passed and whose stored status is not terminal, the status
\* stored by that write is expired, whatever status the observation reports.
C5_DeadlineForcesExpired ==
  [][ \A r \in Slots :
        ( /\ req[r].pc = "upd_set"
          /\ req'[r].pc # "upd_set"
          /\ req[r].payload.payment_id = "pay_1"
          /\ Stored
          /\ ~IsTerminal(store["pay_1"].status)
          /\ now > store["pay_1"].expiresAt )
        => store'["pay_1"].status = "expired" ]_vars

\* C6: the stored status never moves to a less final one, in the order
\* {pending, confirming} < partial < {paid, overpaid, expired, cancelled}.
C6_NeverLessFinal ==
  [][ (Stored /\ store'["pay_1"] # NoMapping)
        => Finality(store'["pay_1"].status) >= Finality(store["pay_1"].status) ]_vars

\* C7: when a Shopify call of a push's side effect has failed, and no other
\* request ran meanwhile, the stored record is the record the push found
\* when it started.
C7_FailedPushLeavesRecord ==
  \A r \in Slots :
    (req[r].kind = "push" /\ req[r].pc = "done" /\ req[r].failed /\ ~overlap /\ Stored)
      => store["pay_1"] = req[r].mapping

\* C8: a push for a known record whose Shopify side effect has failed is
\* answered 500, whatever its event.
C8_FailedPushAnswered500 ==
  \A r \in Slots :
    (req[r].kind = "push" /\ req[r].pc = "done" /\ req[r].failed)
      => req[r].resp.code = 500

\* The signature check has answered the request in vreq.
Verified == vres.error # "pending"

\* s is a string of exactly 64 hex digits.
HexString64(s) == Len(s) = 64 /\ \A i \in DOMAIN s : s[i] \in HexChars

\* The timestamp header T is a date no more than five minutes from nowMs.
WithinFiveMinutes(T, nowMs) ==
  /\ ~Falsy(T)
  /\ ~DateIsNaN(T)
  /\ nowMs - 5 * 60 * 1000 <= DateGetTime(T)
  /\ DateGetTime(T) <= nowMs + 5 * 60 * 1000

\* The strings that differ from s in exactly one character.
OneCharChanges(s) ==
  UNION {{[s EXCEPT ![i] = c] : c \in Chars \ {s[i]}} : i \in DOMAIN s}

\* An accepted request is no longer accepted, with the signature kept, once
\* one character of its timestamp or of its body is changed.
AnyChangeFails ==
  vres.next =>
    /\ \A T2 \in OneCharChanges(vreq.timestamp) :
         ~VerifyPayzCoreWebhook(vreq.signature, T2, vreq.rawBody, vreq.nowMs).next
    /\ \A B2 \in OneCharChanges(vreq.rawBody) :
         ~VerifyPayzCoreWebhook(vreq.signature, vreq.timestamp, B2, vreq.nowMs).next

\* C9, as stated: a request with a fresh timestamp T and a raw body B is
\* accepted if and only if its signature is a 64-character hex string equal,
\* character for character, to hex(HMAC-SHA256(secret, T + "." + B)); and a
\* change of one character of T or B makes an accepted request fail.
C9_AcceptsIffEqualString ==
  (Verified /\ WithinFiveMinutes(vreq.timestamp, vreq.nowMs) /\ vreq.rawBody # Absent)
    => /\ vres.next <=>
            ( /\ HexString64(vreq.signature)
              /\ vreq.signature = SenderSignature(vreq.timestamp, vreq.rawBody) )
       /\ AnyChangeFails

\* C9, amended: a request with a fresh timestamp T and a raw body B is
\* accepted if and only if its signature is a 64-character hex string that
\* equals hex(HMAC-SHA256(secret, T + "." + B)) up to the case of its hex
\* letters (the two are compared as decoded bytes); a change of one character
\* of T or B makes an accepted request fail, and a signature that is not 64
\* hex characters is rejected.
C9_AcceptsIffSameBytes ==
  (Verified /\ WithinFiveMinutes(vreq.timestamp, vreq.nowMs) /\ vreq.rawBody # Absent)
    => /\ vres.next <=>
            ( /\ HexString64(vreq.signature)
              /\ LowerCase(vreq.signature)
                   = SenderSignature(vreq.timestamp, vreq.rawBody) )
       /\ AnyChangeFails
       /\ ~HexString64(vreq.signature) => (~vres.next /\ vres.status = 401)

\* C9, witness: a request carrying the sender's signature has been accepted.
C9_Witness ==
  /\ Verified
  /\ vres.next
  /\ vreq.signature = SenderSignature(vreq.timestamp, vreq.rawBody)
  /\ vreq.rawBody # << >>

\* C9, the case that separates the two statements: the sender's signature
\* written in upper case has been accepted.
C9_UpperCaseAccepted ==
  /\ Verified
  /\ vres.next
  /\ vreq.signature # SenderSignature(vreq.timestamp, vreq.rawBody)

\* C10: a request whose timestamp is no date, or is more than five minutes
\* before or after the current time, is rejected with 401 whatever its
\* signature; a request whose timestamp is within the five minutes, the edges
\* included, and whose signature is the sender's for that timestamp and body,
\* is accepted.
C10_ReplayWindow ==
  Verified =>
    /\ ( /\ ~Falsy(vreq.signature)
         /\ ~Falsy(vreq.timestamp)
         /\ ~WithinFiveMinutes(vreq.timestamp, vreq.nowMs) )
       => (~vres.next /\ vres.status = 401)
    /\ ( /\ WithinFiveMinutes(vreq.timestamp, vreq.nowMs)
         /\ vreq.rawBody # Absent
         /\ vreq.signature = SenderSignature(vreq.timestamp, vreq.rawBody) )
       => vres.next

\* C10, witness: a request one millisecond older than five minutes, carrying
\* the sender's signature for its timestamp and body, has been rejected.
C10_Witness ==
  /\ Verified
  /\ ~vres.next
  /\ ~DateIsNaN(vreq.timestamp)
  /\ vreq.nowMs - DateGetTime(vreq.timestamp) = 5 * 60 * 1000 + 1
  /\ vreq.rawBody # Absent
  /\ vreq.signature = SenderSignature(vreq.timestamp, vreq.rawBody)

\* C11: a push that fails verification (no signature header, no timestamp
\* header, stale timestamp, malformed or mismatching signature) never runs the
\* handler: the only step it takes is from arrival to its 401 answer, it has
\* read no payment record, and that step leaves the store and the order as
\* they were.
C11_RejectedPushRunsNoHandler ==
  [][ \A r \in Slots :
        (req'[r] # req[r] /\ req'[r].kind = "push")
          => /\ req[r].pc = "idle"
             /\ req'[r].pc = "done"
             /\ req'[r].resp.code = 401
             /\ req'[r].mapping = NoMapping
             /\ store' = store
             /\ storeExp' = storeExp
             /\ order' = order ]_vars

\* C11, witness: two pushes have been rejected, one for its missing signature
\* header and one for its signature, and the record and the order are as
\* they were created.
C11_Witness ==
  /\ \E r \in Slots :
       PushAnswered(r, 401) /\ req[r].resp.error = "Missing signature header"
  /\ \E r \in Slots :
       PushAnswered(r, 401) /\ req[r].resp.error = "Invalid signature"
  /\ store["pay_1"] = CreatedMapping
  /\ order = CreatedOrder

\* C12: whatever expired and cancelled pushes are delivered for the payment,
\* repeated deliveries included, at most one cancellation is made on the
\* order.
C12_AtMostOneCancel == order.cancels <= 1

\* Request r is a partial push for pay_1 that has been answered as processed.
PartialPushDone(r) ==
  /\ PushAnswered(r, 200)
  /\ req[r].resp.processed
  /\ req[r].payload.event = "payment.partial"
  /\ req[r].payload.payment_id = "pay_1"

\* C13: partial notes are keyed by the paid amount: when two partial pushes
\* reporting the same paid amount have been handled one after the other, one
\* note has been written on the order, not two.
C13_NotesKeyedByAmount ==
  \A r1, r2 \in Slots :
    ( /\ r1 # r2
      /\ ~overlap
      /\ Stored
      /\ PartialPushDone(r1)
      /\ PartialPushDone(r2)
      /\ req[r1].payload.paid_amount = req[r2].payload.paid_amount )
    => order.notes <= 1

\* Request r is a paid push that has been answered.
PaidPushDone(r) ==
  /\ req[r].kind = "push"
  /\ req[r].pc = "done"
  /\ req[r].payload.event = "payment.completed"
  /\ req[r].payload.status = "paid"

\* C14: once a paid push has been applied (captured, noted, tagged and
\* answered as processed), a duplicate of it delivered afterwards makes no
\* change to the order (no second capture, no second note) and is answered
\* 200 with processed:false.
C14_DuplicatePaidPushIsNoOp ==
  ( /\ ~overlap
    /\ Stored
    /\ PaidPushDone(1)
    /\ PushAnswered(1, 200)
    /\ req[1].resp.processed
    /\ ~req[1].failed
    /\ PaidPushDone(2) )
  => /\ order.captures = 1
     /\ order.notes = 1
     /\ req[2].resp.code = 200
     /\ ~req[2].resp.processed

\* C15: when the capture of a paid push has succeeded and its note or tag
\* call has then failed, the push is not answered 500.
C15_NoteFailureNotAnswered500 ==
  \A r \in Slots :
    ( /\ scen.pushes = 1
      /\ PaidPushDone(r)
      /\ req[r].failed
      /\ order.captures = 1 )
    => req[r].resp.code # 500

\* C16: while paid pushes are handled one after the other, a capture is
\* recorded only on an order that is not already paid: none without a read
\* that showed the order unpaid.
C16_CaptureOnlyOnUnpaidOrder ==
  [][ (~overlap' /\ order'.captures > order.captures)
        => order.financial_status # "paid" ]_vars

\* C17: an expired or cancelled push goes on to the cancel call only when the
\* order it has just read is neither cancelled nor paid; when the order it
\* reads is cancelled or paid it ends there and then, leaving the order as
\* it is; and a cancellation is recorded only by such a push's cancel call.
C17_CancelOnlyIfOpen ==
  [][ /\ \A r \in Slots :
           /\ (req[r].pc = "cancel_get_order" /\ req'[r].pc = "cancel")
                => (~order.cancelled_at /\ order.financial_status # "paid")
           /\ ( /\ req[r].pc = "cancel_get_order"
                /\ req'[r] # req[r]
                /\ (order.cancelled_at \/ order.financial_status = "paid") )
                => (req'[r].pc = "done" /\ order' = order)
      /\ (order'.cancels > order.cancels)
           => \E r \in Slots :
                /\ req[r].pc = "cancel"
                /\ req'[r].pc # "cancel"
                /\ req[r].payload.event \in {"payment.expired", "payment.cancelled"} ]_vars

\* C17, witness: after a paid push has captured the order, an expired or
\* cancelled push that found the record paid has been answered, and no
\* cancellation was made.
C17_Witness ==
  /\ ~overlap
  /\ order.financial_status = "paid"
  /\ order.cancels = 0
  /\ ~order.cancelled_at
  /\ \E r \in Slots :
       /\ PushAnswered(r, 200)
       /\ req[r].payload.event \in {"payment.expired", "payment.cancelled"}
       /\ req[r].mapping.status = "paid"

\* C18: no step of a partial push changes the financial state of the order:
\* it records no capture and no cancellation.
C18_PartialLeavesFinancialState ==
  [][ \A r \in Slots :
        ( /\ req[r].kind = "push"
          /\ req[r].payload.event = "payment.partial"
          /\ req'[r] # req[r] )
        => /\ order'.financial_status = order.financial_status
           /\ order'.cancelled_at = order.cancelled_at
           /\ order'.captures = order.captures
           /\ order'.cancels = order.cancels ]_vars

\* C18, witness: a partial push has written its note and its tags and has
\* been answered, and the order is still pending with no capture and no
\* cancellation.
C18_Witness ==
  /\ \E r \in Slots : PartialPushDone(r) /\ ~req[r].failed
  /\ order.note = << "Partial crypto payment detected", "30" >>
  /\ order.tags = << "crypto-partial", "payzcore" >>
  /\ order.financial_status = "pending"
  /\ order.captures = 0
  /\ order.cancels = 0

\* C19: the side effect of a push is the one its recorded status implies: a
\* capture is recorded only by a push whose status is paid or overpaid, and a
\* cancellation only by a push whose status is expired or cancelled, also
\* when the event name and the status of the push disagree.
C19_EffectFollowsRecordedStatus ==
  [][ \A r \in Slots :
        /\ (req[r].pc = "mark_paid" /\ req'[r] # req[r]
              /\ order'.captures > order.captures)
             => IsPaid(req[r].payload.status)
        /\ (req[r].pc = "cancel" /\ req'[r] # req[r]
              /\ order'.cancels > order.cancels)
             => req[r].payload.status \in {"expired", "cancelled"} ]_vars

\* C20: a poll that has observed paid or overpaid has the effect of a push
\* carrying that status: once it is answered and the record holds the paid
\* status, the order is marked paid.
C20_PaidPollMarksOrderPaid ==
  \A r \in Slots :
    ( /\ req[r].kind = "poll"
      /\ req[r].pc = "done"
      /\ req[r].resp.code = 200
      /\ req[r].resp.is_paid
      /\ Stored
      /\ IsPaid(store["pay_1"].status) )
    => order.financial_status = "paid"

\* C21: when the PayzCore query of a poll for a known record fails, the poll
\* is answered 200 with the status of the record it read, is_terminal false
\* and is_paid false, and the step leaves the store and the order as they
\* were.
C21_FailedPollAnswersCached ==
  [][ \A r \in Slots :
        (req[r].kind = "poll" /\ req[r].pc = "get_payment" /\ req'[r].pc = "done")
          => /\ req'[r].resp =
                  [ code |-> 200, status |-> req[r].mapping.status,
                    is_terminal |-> FALSE, is_paid |-> FALSE ]
             /\ store' = store
             /\ storeExp' = storeExp
             /\ order' = order ]_vars

\* C21, witness: the record holds paid (an earlier poll stored it), a later
\* poll whose PayzCore query failed has been answered with paid and with
\* is_terminal false, and the record still holds paid.
C21_Witness ==
  /\ Stored
  /\ store["pay_1"].status = "paid"
  /\ \E r \in Slots :
       /\ req[r].kind = "poll"
       /\ req[r].pc = "done"
       /\ req[r].resp.code = 200
       /\ req[r].resp.status = "paid"
       /\ ~req[r].resp.is_terminal
       /\ ~req[r].resp.is_paid

\* C22: a push whose payment_id has no record when the handler looks it up is
\* answered 200 with processed:false at that step, and the step creates no
\* record, changes no record and leaves the order as it was; the push takes
\* no further step.
C22_PushWithoutRecordHasNoEffect ==
  [][ \A r \in Slots :
        ( /\ req[r].kind = "push"
          /\ req[r].pc = "get_mapping"
          /\ req'[r] # req[r]
          /\ store[req[r].payload.payment_id] = NoMapping )
        => /\ req'[r].pc = "done"
           /\ req'[r].resp.code = 200
           /\ ~req'[r].resp.processed
           /\ store' = store
           /\ storeExp' = storeExp
           /\ order' = order ]_vars

\* C22, witness: a push for pay_2 has been answered no_mapping, pay_2 still
\* has no record, and the record and the order of pay_1 are as the paid push
\* of pay_1 left them.
C22_Witness ==
  /\ \E r \in Slots :
       /\ PushAnswered(r, 200)
       /\ req[r].payload.payment_id = "pay_2"
       /\ ~req[r].resp.processed
       /\ req[r].resp.reason = "no_mapping"
  /\ store["pay_2"] = NoMapping
  /\ Stored
  /\ store["pay_1"].status = "paid"
  /\ order.captures = 1

\* C23: a push carrying an unknown event name is a no-op: once it is the only
\* request handled and it has been answered, the stored record, its status
\* included, is the record the push found, and the order is untouched.
C23_UnknownEventIsNoOp ==
  \A r \in Slots :
    ( /\ started = 1
      /\ PushAnswered(r, 200)
      /\ req[r].payload.event = "payment.unknown"
      /\ Stored )
    => /\ store["pay_1"] = req[r].mapping
       /\ order = CreatedOrder

\* C24: a record is gone by the end of the retention window: the store holds
\* no record 7 days or more after the record was created, whatever pushes
\* and polls have updated it.
C24_RecordGoneAfterRetention ==
  Stored => now < store["pay_1"].createdAt + PAYMENT_TTL

\* C25: every authenticated push is answered by the webhook handler itself,
\* with 200 or with the 500 of its catch block, also when a store operation
\* fails: no request ends with an error that left the handler.
C25_NoErrorEscapesHandler ==
  \A r \in Slots :
    (req[r].kind = "push" /\ req[r].pc \in {"done", "escaped"})
      => req[r].pc = "done" /\ req[r].resp.code \in {200, 500}

\* C26: observations change only the status of a record: whatever pushes and
\* polls have been processed for pay_1, every field of its record other than
\* status (order reference, network, token, expected amount, address,
\* expiresAt, createdAt) holds the value written at creation.
C26_OnlyStatusChanges ==
  Stored => [store["pay_1"] EXCEPT !.status = CreatedMapping.status] = CreatedMapping

\* A push and a poll have both been processed and the record's status is no
\* longer the one it held when they arrived.
C26_Witness ==
  /\ Stored
  /\ store["pay_1"].status = scen.status
  /\ \E r \in Slots : PushAnswered(r, 200) /\ req[r].resp.processed
  /\ \E r \in Slots : req[r].kind = "poll" /\ req[r].pc = "done"
                        /\ req[r].resp.code = 200 /\ req[r].resp.is_terminal

\* `part` occurs in `text` as a run of consecutive elements.
Contains(text, part) ==
  \E i \in 0..(Len(text) - Len(part)) : SubSeq(text, i + 1, i + Len(part)) = part

\* C27: adding an audit note appends to the order's notes: whenever a note
\* is added (a paid note after a partial note in particular), what the
\* order's note held before is still present in it afterwards.
C27_NoteAppends ==
  [][ order'.notes = order.notes + 1 => Contains(order'.note, order.note) ]_vars

\* C30: whatever the interleaving of a paid (or overpaid) push and an expired
\* (or cancelled) push for one payment, the order never gets both a capture
\* call and a cancel call.
C30_NeverCaptureAndCancel ==
  ~(order.captures >= 1 /\ order.cancels >= 1)

\* C29: the callback goes on to the token exchange (and so to storing a shop
\* access token) only when its state parameter is the nonce /auth/install
\* issued in the same session: never on a session without an install, never
\* without a state parameter, never after the nonce was cleared.
C29_ExchangeOnlyWithIssuedNonce ==
  \A r \in Slots :
    (req[r].kind = "callback" /\ req[r].pc \in {"token_exchange", "save_shop"})
      => /\ req[r].query.state # Absent
         /\ req[r].session.shopifyNonce \notin {Absent, JsNull}
         /\ req[r].query.state = req[r].session.shopifyNonce

\* Request r takes the step of the confirm route that decides about it.
ConfirmDecided(r) ==
  req[r].kind = "confirm" /\ req[r].pc = "confirm_get_mapping" /\ req'[r] # req[r]

\* The record of request r exists, requires a hash and names an endpoint.
ConfirmRecordOk(r) ==
  /\ store[req[r].paymentId] # NoMapping
  /\ store[req[r].paymentId].requiresTxid
  /\ store[req[r].paymentId].confirmEndpoint # ""

\* With hashOk telling whether the submitted hash is well formed: request r
\* is forwarded only if its record and its hash are in order, is answered
\* 404 or 400 without a gateway call otherwise, and leaves the store alone.
ConfirmContract(r, hashOk) ==
  /\ req'[r].pc = "confirm_call" => ConfirmRecordOk(r) /\ hashOk
  /\ ~(ConfirmRecordOk(r) /\ hashOk)
       => /\ req'[r].pc = "done"
          /\ req'[r].resp.code \in {404, 400}
          /\ req'[r].call = NoCall
  /\ store' = store /\ storeExp' = storeExp

\* C28 as stated: a confirm submission is forwarded only if the record is in
\* order and the submitted hash, once an optional 0x prefix is stripped, is
\* 10 to 128 hex characters; otherwise 404 or 400 and no gateway call; the
\* record is never modified.
C28_ForwardedOnlyIfHexAfterPrefix ==
  [][ \A r \in Slots :
        ConfirmDecided(r) =>
          ConfirmContract(r, /\ req[r].txHash.type = "string"
                             /\ TxHashFormatOk(StripHexPrefix(req[r].txHash.value))) ]_vars

\* C28, amended: the same with the hash taken after white space around it is
\* trimmed and then an optional 0x prefix is stripped; what is forwarded is
\* the trimmed hash, and the gateway's answer never touches the record.
C28_ForwardedOnlyIfHexAfterTrim ==
  [][ \A r \in Slots :
        /\ ConfirmDecided(r) =>
             /\ ConfirmContract(r, /\ req[r].txHash.type = "string"
                                   /\ TxHashFormatOk(StripHexPrefix(Trim(req[r].txHash.value))))
             /\ req'[r].pc = "confirm_call"
                  => req'[r].call = [ endpoint |-> store[req[r].paymentId].confirmEndpoint,
                                      txHash |-> Trim(req[r].txHash.value) ]
        /\ (req[r].kind = "confirm" /\ req[r].pc = "confirm_call" /\ req'[r] # req[r])
             => store' = store /\ storeExp' = storeExp ]_vars

\* One submission was forwarded with a prefixed hash and answered by the
\* gateway; another was turned down for its format.
C28_Witness ==
  /\ store["pay_1"] = CreatedMapping
  /\ \E r \in Slots :
       /\ req[r].kind = "confirm" /\ req[r].pc = "done" /\ req[r].resp.code = 200
       /\ req[r].call.txHash = << "0", "x" >> \o HexString(TX_HASH_MIN)
  /\ \E r \in Slots :
       /\ req[r].kind = "confirm" /\ req[r].pc = "done" /\ req[r].resp.code = 400
       /\ req[r].resp.error = "Invalid transaction hash format"

C32_TerminalStopsPollingAndCountdown ==
  [][ /\ page'.isTerminal => ~page'.pollTimer /\ ~page'.countdownTimer
      /\ page.isTerminal =>
           /\ page'.isTerminal
           /\ page'.countdown = page.countdown
           /\ \A r \in Slots : req[r].pc = "idle" => req'[r].pc = "idle" ]_vars

\* The page became terminal on an expired response while a second status
\* request was in flight, and the late response of that one was handled too.
C32_Witness ==
  /\ page.isTerminal /\ page.expiredOverlay /\ page.banner = "confirming"
  /\ started = 2
  /\ \A r \in Slots : req[r].pc = "idle"

\* C33: the success outcome and the expired outcome exclude each other and
\* each happens at most once: whatever the order of countdown ticks and poll
\* responses, showSuccess is called at most once, its redirect is scheduled
\* at most once, and the two overlays are never both shown.
C33_SuccessOnceAndNeverWithExpired ==
  /\ page.showSuccessCalls <= 1
  /\ page.redirects <= 1
  /\ ~(page.successOverlay /\ page.expiredOverlay)

\* C34: once the countdown has expired, or an expired or cancelled status
\* was received (either shows the expired overlay), submitTxHash sends no
\* confirm request in any later state.
C34_NoConfirmAfterExpiry ==
  [][ page.expiredOverlay =>
        /\ page'.expiredOverlay
        /\ \A r \in Slots : req[r].pc = "idle" => req'[r].pc = "idle" \/ req'[r].kind # "confirm"
    ]_vars

\* After the expiry, submitTxHash was called and turned the payer down,
\* though a confirm request had been sent before the expiry.
C34_Witness ==
  /\ page.expiredOverlay
  /\ page.txidStatus = "Payment has expired"
  /\ \E r \in Slots : req[r].kind = "confirm"

\* The confirm route's checks of a submitted string: present, and well formed
\* once trimmed and stripped of its prefix.
ServerAcceptsTxHash(s) ==
  /\ ~TxHashMissing(TxHashString(s))
  /\ TxHashFormatOk(StripHexPrefix(Trim(s)))

\* C35: the page's check of a transaction hash and the server's agree: what
\* the page sends passes the server's format check, and what the page turns
\* down as badly formed the server would turn down too.
C35_PageAndServerAgreeOnTxHash ==
  /\ \A r \in Slots :
       (req[r].kind = "confirm" /\ req[r].pc = "confirm_get_mapping")
         => ServerAcceptsTxHash(req[r].txHash.value)
  /\ page.txidStatus = "Invalid format" => ~ServerAcceptsTxHash(page.txidInput)

\* C37: once loadConfig has succeeded, and after the fetchConfigFromApi that
\* follows it, defaultNetwork is one of enabledNetworks and (defaultNetwork,
\* defaultToken) is a valid network/token combination.
C37_DefaultsAreEnabledAndValid ==
  config.pc \in {"loaded", "serving"} =>
    /\ \E i \in 1..Len(config.app.enabledNetworks) :
         config.app.enabledNetworks[i] = config.app.defaultNetwork
    /\ isValidNetworkToken(config.app.defaultNetwork, config.app.defaultToken)

\* C36: /payment/create sends a monitoring request to PayzCore only for an
\* installed shop whose order was read from Shopify with a financial status
\* other than paid, refunded or voided, with a network of the enabled list and
\* a token that network supports; a record is in Redis only for a payment
\* that PayzCore has created, under the id PayzCore gave it.
C36_CreateOnlyForPayableOrder ==
  /\ \A r \in Slots :
       (req[r].kind = "create" /\ req[r].call.sent) =>
         /\ req[r].query.shop \in shops
         /\ req[r].order.read = "ok"
         /\ req[r].order.financial_status \notin {"paid", "refunded", "voided"}
         /\ \E i \in 1..Len(config.app.enabledNetworks) :
              config.app.enabledNetworks[i] = req[r].call.network
         /\ req[r].call.token \in VALID_NETWORK_TOKEN(req[r].call.network)
  /\ \A p \in PaymentIds :
       store[p] # NoMapping =>
         \E r \in Slots :
           /\ req[r].kind = "create"
           /\ req[r].call.sent
           /\ req[r].payment.id = p
           /\ store[p].payzCorePaymentId = p
           /\ store[p].network = req[r].call.network

\* C36 witness: a create request of an installed shop was redirected to the
\* payment page and its record is in Redis.
C36_Witness ==
  \E r \in Slots :
    /\ req[r].kind = "create"
    /\ req[r].pc = "done"
    /\ req[r].resp.code = 302
    /\ store[req[r].payment.id] # NoMapping

====
